---------------------------- MODULE Spec2Model ----------------------------
(***************************************************************************)
(* Contact-data extraction pipeline of the Scan2Card backend:              *)
(*   processQRCode      (src/services/qrCodeProcessor.service.ts)          *)
(*   scanBusinessCard   (src/services/businessCardScanner.service.ts)      *)
(* and, further down, the one-time passwords of the authentication        *)
(* controller (src/controllers/auth.controller.ts) and createExhibitor of  *)
(* the admin controller (src/controllers/admin.controller.ts).             *)
(* Texts are sequences of one-character strings, so that trimming, case    *)
(* folding, prefix tests and the regular expressions of the source are     *)
(* computed character by character.                                        *)
(***************************************************************************)
EXTENDS Integers, Sequences, FiniteSets, TLC

VARIABLES
    pc,              \* "idle", "qr_await", "qr_done", "card_await", "card_done"
    qrText,          \* the payload the caller passed to processQRCode
    qrResult,        \* what processQRCode returned (or how it ended)
    crawlerCalls,    \* URLs posted to the crawler service during the current call
    apiKeySet,       \* process.env.OPENAI_API_KEY is configured
    image,           \* the image the caller passed to scanBusinessCard
    cardResult,      \* what scanBusinessCard returned (or how it ended)
    visionCalls,     \* number of vision-model requests during the current call
    otps,            \* the documents of OTPModel, in the order of their creation
    users,           \* the documents of UserModel the authentication handlers read
    calls,           \* the verification requests that found a document, up to their response
    response,        \* the last response of a request that saved no one-time password
    exhibitors,      \* the documents of UserModel that registerUser created
    admin,           \* the last call of createExhibitor
    batch,           \* the call of batchScanBusinessCards: its images and its results so far
    licenseKeys,     \* the licenseKeys sub-documents of the event, by key
    rsvps,           \* the documents of RsvpModel, in the order of their creation
    rsvpCalls,       \* the requests to createRsvp and cancelRsvp, each up to its response
    meetings,        \* the documents of MeetingModel, by _id
    runs,            \* the passes of the reminder job and of the on-demand check
    delivered        \* per meeting, the reminders that reached a device

\* the variables of processQRCode and scanBusinessCard
scanVars == <<pc, qrText, qrResult, crawlerCalls, apiKeySet, image, cardResult,
              visionCalls>>

\* the variables of the authentication handlers
authVars == <<otps, users, calls, response>>

\* the variables of createExhibitor
adminVars == <<exhibitors, admin>>

\* the variable of batchScanBusinessCards
batchVars == <<batch>>

\* the variables of createRsvp and cancelRsvp
rsvpVars == <<licenseKeys, rsvps, rsvpCalls>>

\* the variables of the meeting reminders
cronVars == <<meetings, runs, delivered>>

\* the variables of the handlers modelled after createExhibitor
otherVars == <<batchVars, rsvpVars, cronVars>>

vars == <<scanVars, authVars, adminVars, otherVars>>

-----------------------------------------------------------------------------
(* Characters and strings *)

Digits == {"0", "1", "2", "3", "4", "5", "6", "7", "8", "9"}

LowerSeq ==
    <<"a", "b", "c", "d", "e", "f", "g", "h", "i", "j", "k", "l", "m",
      "n", "o", "p", "q", "r", "s", "t", "u", "v", "w", "x", "y", "z">>

UpperSeq ==
    <<"A", "B", "C", "D", "E", "F", "G", "H", "I", "J", "K", "L", "M",
      "N", "O", "P", "Q", "R", "S", "T", "U", "V", "W", "X", "Y", "Z">>

Lowers == {LowerSeq[i] : i \in 1..Len(LowerSeq)}

Uppers == {UpperSeq[i] : i \in 1..Len(UpperSeq)}

Letters == Lowers \cup Uppers

AlNum == Letters \cup Digits

\* the white space String.prototype.trim removes and \s matches
WhiteSpace == {" ", "\n", "\t", "\r"}

\* every character that occurs in a modelled text
AnyChar ==
    AlNum \cup WhiteSpace \cup
    {"_", "-", ".", "@", "/", ":", "+", "(", ")", "?", "=", "%", ";", ",",
     "\\", "#", "&"}

Min(a, b) == IF a < b THEN a ELSE b

Max(a, b) == IF a > b THEN a ELSE b

SetMin(S) == CHOOSE x \in S : \A y \in S : x <= y

SetMax(S) == CHOOSE x \in S : \A y \in S : x >= y

ToLowerChar(c) ==
    IF c \in Uppers
        THEN LowerSeq[CHOOSE i \in 1..Len(UpperSeq) : UpperSeq[i] = c]
        ELSE c

\* String.prototype.toLowerCase
ToLower(s) == [i \in 1..Len(s) |-> ToLowerChar(s[i])]

\* a trim that removes nothing
NoTrim(s) == s

\* a trim that removes the leading white space only
TrimStart(s) ==
    LET keep == {i \in 1..Len(s) : s[i] \notin WhiteSpace}
    IN  IF keep = {} THEN <<>> ELSE SubSeq(s, SetMin(keep), Len(s))

\* String.prototype.trim
Trim(s) ==
    LET keep == {i \in 1..Len(s) : s[i] \notin WhiteSpace}
    IN  IF keep = {} THEN <<>> ELSE SubSeq(s, SetMin(keep), SetMax(keep))

\* String.prototype.startsWith
StartsWith(s, p) == Len(s) >= Len(p) /\ SubSeq(s, 1, Len(p)) = p

\* String.prototype.indexOf, 0-based, -1 when p does not occur
IndexOf(s, p) ==
    LET at == {i \in 0..(Len(s) - Len(p)) : SubSeq(s, i + 1, i + Len(p)) = p}
    IN  IF at = {} THEN -1 ELSE SetMin(at)

\* String.prototype.includes
Includes(s, p) == IndexOf(s, p) # -1

\* String.prototype.substring(from, to), 0-based, to exclusive, both clamped
Substring(s, from, to) ==
    LET a == Min(Max(from, 0), Len(s))
        b == Min(Max(to, 0), Len(s))
    IN  SubSeq(s, Min(a, b) + 1, Max(a, b))

\* String.prototype.replace(p, "") with a string pattern: the first occurrence
RemoveFirst(s, p) ==
    LET i == IndexOf(s, p)
    IN  IF i = -1 THEN s
        ELSE SubSeq(s, 1, i) \o SubSeq(s, i + Len(p) + 1, Len(s))

\* String.prototype.replace(/[^cls]/g, ""): keep the characters of cls
RECURSIVE KeepOnly(_, _)
KeepOnly(s, cls) ==
    IF s = <<>> THEN <<>>
    ELSE (IF Head(s) \in cls THEN <<Head(s)>> ELSE <<>>) \o KeepOnly(Tail(s), cls)

RECURSIVE Flatten(_)
Flatten(ss) == IF ss = <<>> THEN <<>> ELSE Head(ss) \o Flatten(Tail(ss))

-----------------------------------------------------------------------------
(* Regular expressions: a pattern is a sequence of alternatives tried in     *)
(* order at each start position; an alternative is a sequence of items, each *)
(* a greedy quantified character class, a word boundary or the text's end.   *)

\* cls{lo,hi}; hi = -1 stands for "no upper limit"
Rep(cls, lo, hi) == [kind |-> "cls", cls |-> cls, lo |-> lo, hi |-> hi]

One(cls) == Rep(cls, 1, 1)

Opt(cls) == Rep(cls, 0, 1)

Plus(cls) == Rep(cls, 1, -1)

Star(cls) == Rep(cls, 0, -1)

\* \b
WordBoundary == [kind |-> "wb", cls |-> {}, lo |-> 0, hi |-> 0]

\* $
EndOfText == [kind |-> "end", cls |-> {}, lo |-> 0, hi |-> 0]

\* a literal word; with the i flag each letter matches in both cases
Lit(w) == [i \in 1..Len(w) |-> One({w[i]})]

LitI(w) ==
    [i \in 1..Len(w) |->
        One({c \in AnyChar : ToLowerChar(c) = ToLowerChar(w[i])})]

\* \w
WordChars == AlNum \cup {"_"}

\* \b holds at position p (p characters consumed)
IsWordBoundary(t, p) ==
    LET before == p >= 1 /\ t[p] \in WordChars
        after == p < Len(t) /\ t[p + 1] \in WordChars
    IN  before # after

\* the longest run of cls characters starting after position p, at most hi long
RECURSIVE RunLen(_, _, _, _)
RunLen(t, p, cls, hi) ==
    IF hi = 0 \/ p >= Len(t) \/ t[p + 1] \notin cls THEN 0
    ELSE 1 + RunLen(t, p + 1, cls, hi - 1)

\* The end position of the match a backtracking engine prefers for
\* items[k..] starting after position p, or -1 when there is none. A greedy
\* item first takes the longest run (TryCount gives back one character at a
\* time until the rest matches).
RECURSIVE MatchFrom(_, _, _, _), TryCount(_, _, _, _, _)
MatchFrom(t, items, k, p) ==
    IF k > Len(items) THEN p
    ELSE IF items[k].kind = "wb"
        THEN IF IsWordBoundary(t, p) THEN MatchFrom(t, items, k + 1, p) ELSE -1
    ELSE IF items[k].kind = "end"
        THEN IF p = Len(t) THEN MatchFrom(t, items, k + 1, p) ELSE -1
    ELSE TryCount(t, items, k, p, RunLen(t, p, items[k].cls, items[k].hi))

TryCount(t, items, k, p, c) ==
    IF c < items[k].lo THEN -1
    ELSE LET e == MatchFrom(t, items, k + 1, p + c)
         IN  IF e # -1 THEN e ELSE TryCount(t, items, k, p, c - 1)

\* the end of the match of the first alternative that matches after position
\* p, trying the alternatives from a on; -1 when none does
RECURSIVE MatchAltsFrom(_, _, _, _)
MatchAltsFrom(t, alts, a, p) ==
    IF a > Len(alts) THEN -1
    ELSE LET e == MatchFrom(t, alts[a], 1, p)
         IN  IF e # -1 THEN e ELSE MatchAltsFrom(t, alts, a + 1, p)

MatchAlts(t, alts, p) == MatchAltsFrom(t, alts, 1, p)

NoMatch == [found |-> FALSE, start |-> 0, end |-> 0]

\* the characters that occur in t
CharsOf(t) == {t[i] : i \in 1..Len(t)}

\* an alternative can match in a text only if the text holds, for each item
\* that takes at least one character, a character of the item's class
CanMatch(items, present) ==
    \A k \in 1..Len(items) :
        (items[k].kind = "cls" /\ items[k].lo >= 1) =>
            items[k].cls \cap present # {}

\* the alternatives that can match in t, in their order
Candidates(t, alts) ==
    LET present == CharsOf(t)
    IN  SelectSeq(alts, LAMBDA items : CanMatch(items, present))

\* the leftmost match of alts that starts at position from or later
RECURSIVE SearchFrom(_, _, _)
SearchFrom(t, alts, from) ==
    IF alts = <<>> \/ from > Len(t) THEN NoMatch
    ELSE LET e == MatchAlts(t, alts, from)
         IN  IF e # -1 THEN [found |-> TRUE, start |-> from, end |-> e]
             ELSE SearchFrom(t, alts, from + 1)

\* RegExp.prototype.exec with lastIndex = from: the leftmost match; the
\* alternatives that cannot match in t are left out before the search
RegexSearch(t, alts, from) == SearchFrom(t, Candidates(t, alts), from)

\* match[0]
Matched(t, m) == SubSeq(t, m.start + 1, m.end)

\* String.prototype.match with the g flag: every match, left to right
RECURSIVE MatchAll(_, _, _)
MatchAll(t, alts, from) ==
    LET m == RegexSearch(t, alts, from)
    IN  IF from > Len(t) \/ ~m.found THEN <<>>
        ELSE <<Matched(t, m)>> \o
             MatchAll(t, alts, IF m.end > m.start THEN m.end ELSE m.end + 1)

\* RegExp.prototype.test for /^[cls]+$/
AllIn(t, cls) == Len(t) >= 1 /\ \A i \in 1..Len(t) : t[i] \in cls

DigitCount(t) == Len(KeepOnly(t, Digits))

-----------------------------------------------------------------------------
(* Payload classification predicates (qrCodeProcessor.service.ts 66-109) *)

StrMailto == <<"m", "a", "i", "l", "t", "o", ":">>

StrTel == <<"t", "e", "l", ":">>

StrBeginVCard == <<"B", "E", "G", "I", "N", ":", "V", "C", "A", "R", "D">>

StrEndVCard == <<"E", "N", "D", ":", "V", "C", "A", "R", "D">>

StrHttp == <<"h", "t", "t", "p">>

StrHttps == <<"h", "t", "t", "p", "s">>

\* isEntryCode
IsEntryCode(text) ==
    LET trimmed == Trim(text)
    IN  /\ ~(Len(trimmed) < 3 \/ Len(trimmed) > 30)
        /\ AllIn(trimmed, AlNum \cup {"-", "_"})
        /\ ~(Includes(trimmed, <<".">>) \/ Includes(trimmed, <<"@">>)
                \/ Includes(trimmed, <<"/">>))

\* isVCard
IsVCard(text) ==
    StartsWith(Trim(text), StrBeginVCard) /\ Includes(text, StrEndVCard)

(* new URL(text), the WHATWG URL parser without a base URL, as far as        *)
(* isURL observes it: the scheme, and for the http and https schemes whether *)
(* the authority parses. The modelled texts hold no "0", "[", "<", ">", "^"  *)
(* or "|", so a host number is decimal and a host is never an IPv6 literal.  *)

\* the parser drops ASCII tab and newline wherever they stand
UrlInput(text) == KeepOnly(Trim(text), AnyChar \ {"\t", "\n", "\r"})

\* url.protocol without the colon, lower-cased; <<>> when there is no scheme
UrlScheme(input) ==
    LET SchemeUpTo(colon) ==
            IF /\ colon >= 1
               /\ input[1] \in Letters
               /\ \A i \in 1..colon : input[i] \in AlNum \cup {"+", "-", "."}
            THEN ToLower(SubSeq(input, 1, colon))
            ELSE <<>>
    IN  SchemeUpTo(IndexOf(input, <<":">>))

\* what follows the scheme's colon and the slashes and backslashes after it
RECURSIVE SkipSlashes(_)
SkipSlashes(s) ==
    IF s # <<>> /\ Head(s) \in {"/", "\\"} THEN SkipSlashes(Tail(s)) ELSE s

\* the first position of s that holds a character of cs, Len(s) + 1 if none
FirstOf(s, cs) == SetMin({i \in 1..Len(s) : s[i] \in cs} \cup {Len(s) + 1})

\* the last position of s that holds a character of cs, 0 if none
LastOf(s, cs) == SetMax({i \in 1..Len(s) : s[i] \in cs} \cup {0})

\* the authority: up to the first "/", "\", "?" or "#"
UrlAuthority(input) ==
    LET UpToStop(rest) == SubSeq(rest, 1, FirstOf(rest, {"/", "\\", "?", "#"}) - 1)
    IN  UpToStop(SkipSlashes(SubSeq(input, IndexOf(input, <<":">>) + 2, Len(input))))

\* host and port: what follows the last "@" of the authority
UrlHostPort(auth) == SubSeq(auth, LastOf(auth, {"@"}) + 1, Len(auth))

\* the host: up to the first ":" of host and port
UrlHost(hp) == SubSeq(hp, 1, FirstOf(hp, {":"}) - 1)

\* the port's characters, <<>> when no port is given
UrlPort(hp) == SubSeq(hp, FirstOf(hp, {":"}) + 1, Len(hp))

\* a decimal numeral without leading zero is at most hi * 10^5 + lo
DecimalAtMost(ds, hi, lo) ==
    LET RECURSIVE Val(_)
        Val(d) ==
            IF d = <<>> THEN 0
            ELSE 10 * Val(SubSeq(d, 1, Len(d) - 1))
                 + (CHOOSE n \in 0..9 :
                       <<"0", "1", "2", "3", "4", "5", "6", "7", "8", "9">>[n + 1]
                           = d[Len(d)])
        high == Val(SubSeq(ds, 1, Len(ds) - 5))
        low == Val(SubSeq(ds, Max(Len(ds) - 4, 1), Len(ds)))
    IN  /\ Len(ds) <= 10
        /\ high < hi \/ (high = hi /\ low <= lo)

\* the labels of a host, split at "."
RECURSIVE SplitOn(_, _)
SplitOn(s, c) ==
    LET i == IndexOf(s, <<c>>)
    IN  IF i = -1 THEN <<s>>
        ELSE <<SubSeq(s, 1, i)>> \o SplitOn(SubSeq(s, i + 2, Len(s)), c)

\* the host's parts as the IPv4 parser sees them (one trailing empty part dropped)
HostParts(host) ==
    LET DropLastEmpty(parts) ==
            IF Len(parts) > 1 /\ parts[Len(parts)] = <<>>
            THEN SubSeq(parts, 1, Len(parts) - 1)
            ELSE parts
    IN  DropLastEmpty(SplitOn(host, "."))

\* "ends in a number": the last part is all digits
HostEndsInNumber(parts) == AllIn(parts[Len(parts)], Digits)

\* the IPv4 parser accepts the parts of the host
IPv4Parses(parts) ==
    /\ Len(parts) <= 4
    /\ \A i \in 1..Len(parts) : AllIn(parts[i], Digits)
    /\ \A i \in 1..(Len(parts) - 1) : DecimalAtMost(parts[i], 0, 255)
    /\ DecimalAtMost(parts[Len(parts)],
                     <<42949, 167, 0, 0>>[Len(parts)],
                     <<67295, 77215, 65535, 255>>[Len(parts)])

\* forbidden domain code points among the modelled characters; a "%" either
\* stays or percent-decodes to one of them ("%40" gives "@")
ForbiddenHostChars == {" ", "#", "/", ":", "?", "@", "\\", "%"}

\* the host parser accepts the host
HostParses(host) ==
    /\ host # <<>>
    /\ \A i \in 1..Len(host) : host[i] \notin ForbiddenHostChars
    /\ LET NumberIsIPv4(parts) == HostEndsInNumber(parts) => IPv4Parses(parts)
       IN  NumberIsIPv4(HostParts(host))

\* the port is absent or a number up to 65535
PortParses(port) ==
    port # <<>> => (AllIn(port, Digits) /\ DecimalAtMost(port, 0, 65535))

\* the http(s) URL parses: a host the host parser accepts and a valid port
HttpAuthorityParses(hp) == HostParses(UrlHost(hp)) /\ PortParses(UrlPort(hp))

\* new URL(text) succeeds with the protocol "http:" or "https:"
UrlParses(input) ==
    /\ UrlScheme(input) \in {StrHttp, StrHttps}
    /\ HttpAuthorityParses(UrlHostPort(UrlAuthority(input)))

\* isURL
IsURL(text) == UrlParses(UrlInput(text))

-----------------------------------------------------------------------------
(* Field extractors (qrCodeProcessor.service.ts 111-190) *)

\* what a search returns: the text found, or nothing (undefined)
NotFound == [found |-> FALSE, s |-> <<>>]

Found(s) == [found |-> TRUE, s |-> s]

\* /[a-zA-Z0-9._%+-]+@[a-zA-Z0-9.-]+\.[a-zA-Z]{2,}/
EmailRegex ==
    << <<Plus(AlNum \cup {".", "_", "%", "+", "-"}), One({"@"}),
         Plus(AlNum \cup {".", "-"}), One({"."}), Rep(Letters, 2, -1)>> >>

\* extractEmail
ExtractEmail(text) ==
    LET m == RegexSearch(text, EmailRegex, 0)
    IN  IF m.found THEN Found(Matched(text, m)) ELSE NotFound

\* [-.\s]
PhoneSep == {"-", "."} \cup WhiteSpace

\* the rest of the first phone pattern after its optional country-code group
PhoneUSTail ==
    <<Opt({"("}), Rep(Digits, 3, 3), Opt({")"}), Opt(PhoneSep), Rep(Digits, 3, 3),
      Opt(PhoneSep), Rep(Digits, 4, 5)>>

\* phonePatterns, in the order of the source
PhonePatterns ==
    << \* /(\+?\d{1,3}[-.\s]?)?\(?\d{3}\)?[-.\s]?\d{3}[-.\s]?\d{4,5}/
       << <<Opt({"+"}), Rep(Digits, 1, 3), Opt(PhoneSep)>> \o PhoneUSTail,
          PhoneUSTail >>,
       \* /(\+?\d{1,3}[-.\s]?\d{2,4}[-.\s]?\d{2,4}[-.\s]?\d{2,4}[-.\s]?\d{0,4})/
       << <<Opt({"+"}), Rep(Digits, 1, 3), Opt(PhoneSep), Rep(Digits, 2, 4),
            Opt(PhoneSep), Rep(Digits, 2, 4), Opt(PhoneSep), Rep(Digits, 2, 4),
            Opt(PhoneSep), Rep(Digits, 0, 4)>> >>,
       \* /\+?\d{10,15}/
       << <<Opt({"+"}), Rep(Digits, 10, 15)>> >>,
       \* /(\(\d{3}\)\s?\d{3}[-.\s]\d{4})/
       << <<One({"("}), Rep(Digits, 3, 3), One({")"}), Opt(WhiteSpace),
            Rep(Digits, 3, 3), One(PhoneSep), Rep(Digits, 4, 4)>> >>,
       \* /(\d{3}[-.\s]\d{3}[-.\s]\d{4})/
       << <<Rep(Digits, 3, 3), One(PhoneSep), Rep(Digits, 3, 3), One(PhoneSep),
            Rep(Digits, 4, 4)>> >> >>

\* [^\d+\-\s()] is removed from a phone number
PhoneChars == Digits \cup {"+", "-", "(", ")"} \cup WhiteSpace

\* extractPhone: the first pattern whose match has 7 to 15 digits
RECURSIVE ExtractPhoneFrom(_, _)
ExtractPhoneFrom(text, k) ==
    IF k > Len(PhonePatterns) THEN NotFound
    ELSE
        LET m == RegexSearch(text, PhonePatterns[k], 0)
            cleaned == Trim(KeepOnly(Matched(text, m), PhoneChars))
            digitCount == DigitCount(cleaned)
        IN  IF m.found /\ digitCount >= 7 /\ digitCount <= 15
            THEN Found(cleaned)
            ELSE ExtractPhoneFrom(text, k + 1)

ExtractPhone(text) == ExtractPhoneFrom(text, 1)

\* (?:code|uniquecode|unique_code|entrycode|entry_code|uniqueid|unique_id)
CodeKeywords ==
    <<<<"c", "o", "d", "e">>,
      <<"u", "n", "i", "q", "u", "e", "c", "o", "d", "e">>,
      <<"u", "n", "i", "q", "u", "e", "_", "c", "o", "d", "e">>,
      <<"e", "n", "t", "r", "y", "c", "o", "d", "e">>,
      <<"e", "n", "t", "r", "y", "_", "c", "o", "d", "e">>,
      <<"u", "n", "i", "q", "u", "e", "i", "d">>,
      <<"u", "n", "i", "q", "u", "e", "_", "i", "d">>>>

\* \s*[=:]\s*([A-Za-z0-9]{9,15})
CodeValueTail ==
    <<Star(WhiteSpace), One({"=", ":"}), Star(WhiteSpace), Rep(AlNum, 9, 15)>>

\* NOTE\s*:\s*
NoteHead ==
    LitI(<<"n", "o", "t", "e">>) \o <<Star(WhiteSpace), One({":"}), Star(WhiteSpace)>>

\* keyValuePatterns (both carry the i flag)
KeyValuePatterns ==
    << [a \in 1..Len(CodeKeywords) |-> LitI(CodeKeywords[a]) \o CodeValueTail],
       [a \in 1..3 |-> NoteHead \o LitI(CodeKeywords[a]) \o CodeValueTail] >>

\* match[1] of a key-value match: the group is the match's last item, and the
\* character before it is white space, "=" or ":", so it is the run of
\* alphanumerics that ends where the match ends
CaptureGroup(text, m) ==
    LET begins == {b \in m.start..m.end :
                      \A i \in (b + 1)..m.end : text[i] \in AlNum}
    IN  SubSeq(text, SetMin(begins) + 1, m.end)

\* /\b([A-Za-z0-9]{9,15})\b/g
StandalonePattern == << <<WordBoundary, Rep(AlNum, 9, 15), WordBoundary>> >>

\* the context window of a standalone token, around its first occurrence
CodeContext(text, match) ==
    Substring(text, Max(0, IndexOf(text, match) - 10),
              IndexOf(text, match) + Len(match) + 10)

StrHttpWord == <<"h", "t", "t", "p">>

StrWww == <<"w", "w", "w">>

\* the loop of extractUniqueCode returns the first standalone token, whatever it is
SkipNoStandalone(text, match) == FALSE

\* the loop of extractUniqueCode skips this standalone token
SkipStandalone(text, match) ==
    \/ DigitCount(match) > 10
    \/ AllIn(match, Digits)
    \/ LET context == CodeContext(text, match)
       IN  \/ Includes(context, <<"@">>)
           \/ Includes(context, StrHttpWord)
           \/ Includes(context, StrWww)

\* the first token of matches the loop does not skip
RECURSIVE FirstStandalone(_, _)
FirstStandalone(text, matches) ==
    IF matches = <<>> THEN NotFound
    ELSE IF SkipStandalone(text, Head(matches))
        THEN FirstStandalone(text, Tail(matches))
        ELSE Found(Head(matches))

\* the first key-value pattern that matches
RECURSIVE KeyValueCode(_, _)
KeyValueCode(text, k) ==
    IF k > Len(KeyValuePatterns) THEN NotFound
    ELSE
        LET m == RegexSearch(text, KeyValuePatterns[k], 0)
        IN  IF m.found THEN Found(CaptureGroup(text, m))
            ELSE KeyValueCode(text, k + 1)

\* extractUniqueCode
ExtractUniqueCode(text) ==
    LET kv == KeyValueCode(text, 1)
    IN  IF kv.found THEN kv
        ELSE FirstStandalone(text, MatchAll(text, StandalonePattern, 0))

-----------------------------------------------------------------------------
(* Contact records (QRContactData, qrCodeProcessor.service.ts 10-26).       *)
(* A JavaScript object is a function from the keys to values; a key the     *)
(* object does not own has the value Absent, which differs from a key that  *)
(* is present with the value undefined.                                     *)

Absent == [k |-> "absent", s |-> <<>>, a |-> <<>>]

Undefined == [k |-> "undefined", s |-> <<>>, a |-> <<>>]

Null == [k |-> "null", s |-> <<>>, a |-> <<>>]

\* a string
Str(s) == [k |-> "str", s |-> s, a |-> <<>>]

\* an array of strings
Arr(a) == [k |-> "arr", s |-> <<>>, a |-> a]

\* a number
Num == [k |-> "num", s |-> <<>>, a |-> <<>>]

\* the ten fields normalizeContactData defaults
RequiredKeys ==
    {"firstName", "lastName", "company", "position", "email", "phoneNumber",
     "website", "address", "city", "country"}

\* the other fields of QRContactData
OtherKeys == {"title", "department", "mobile", "streetName", "uniqueCode"}

ContactKeys == RequiredKeys \cup OtherKeys

\* {}
EmptyContact == [key \in ContactKeys |-> Absent]

\* JavaScript truthiness of a value
Truthy(v) == v.k \in {"arr", "num"} \/ (v.k = "str" /\ v.s # <<>>)

\* v || ''
OrEmpty(v) == IF Truthy(v) THEN v ELSE Str(<<>>)

\* the value of a search result: the string, or undefined
OrUndefined(r) == IF r.found THEN Str(r.s) ELSE Undefined

\* v && v.length > 0
NonEmptyValue(v) ==
    (v.k = "str" /\ Len(v.s) > 0) \/ (v.k = "arr" /\ Len(v.a) > 0)

\* normalizeContactData where the "delete normalized.uniqueCode" is left out
NormalizeKeepingCode(data) ==
    [key \in ContactKeys |->
        IF data[key].k # "absent" THEN data[key]
        ELSE IF key \in RequiredKeys THEN OrEmpty(data[key])
        ELSE Absent]

\* normalizeContactData that also removes every key whose value is undefined
NormalizeDroppingUndefined(data) ==
    [key \in ContactKeys |->
        IF key = "uniqueCode" \/ NormalizeKeepingCode(data)[key] = Undefined
        THEN Absent
        ELSE NormalizeKeepingCode(data)[key]]

\* normalizeContactData: the defaults, then the spread of data over them,
\* then the delete of uniqueCode
NormalizeContactData(data) ==
    LET defaults ==
            [key \in ContactKeys |->
                IF key \in RequiredKeys THEN OrEmpty(data[key]) ELSE Absent]
        normalized ==
            [key \in ContactKeys |->
                IF data[key].k # "absent" THEN data[key] ELSE defaults[key]]
    IN  [normalized EXCEPT !["uniqueCode"] = Absent]

\* Object.values(contactData).filter((v) => v && v.length > 0).length
FieldCount(contactData) ==
    Cardinality({key \in ContactKeys : NonEmptyValue(contactData[key])})

-----------------------------------------------------------------------------
(* Confidence scores are kept in units of 1/300, the least unit in which    *)
(* n/3, n/5, n/6, n/10 and the hundredths are all whole numbers.            *)

\* fieldCount / d in units of 1/300 (d divides 300)
Ratio(n, d) == (n * 300) \div d

\* the ratio as it is, not rounded
Unrounded(x) == x

\* parseFloat(x.toFixed(2)): x rounded to the nearest hundredth
ToFixed2(x) == 3 * ((2 * x + 3) \div 6)

\* the literals 1.0, 0.5 and 0.3 of the source
ConfOne == Ratio(1, 1)

ConfHalf == Ratio(1, 2)

\* a plaintext result without fields gets no confidence at all
ConfNone == Ratio(0, 1)

\* the literal 0.3 of the plaintext branch
ConfFloor == Ratio(3, 10)

-----------------------------------------------------------------------------
(* Format parsers (qrCodeProcessor.service.ts 192-231, 267-401) *)

\* the printable ASCII characters, from code 32 to code 126 (the backquote,
\* which a string of this language cannot hold, by a placeholder)
AsciiSeq ==
    <<" ", "!", "\"", "#", "$", "%", "&", "'", "(", ")", "*", "+", ",", "-",
      ".", "/", "0", "1", "2", "3", "4", "5", "6", "7", "8", "9", ":", ";",
      "<", "=", ">", "?", "@", "A", "B", "C", "D", "E", "F", "G", "H", "I",
      "J", "K", "L", "M", "N", "O", "P", "Q", "R", "S", "T", "U", "V", "W",
      "X", "Y", "Z", "[", "\\", "]", "^", "_", "<backquote>", "a", "b", "c", "d", "e",
      "f", "g", "h", "i", "j", "k", "l", "m", "n", "o", "p", "q", "r", "s",
      "t", "u", "v", "w", "x", "y", "z", "{", "|", "}", "~">>

HexDigits ==
    <<"0", "1", "2", "3", "4", "5", "6", "7", "8", "9", "a", "b", "c", "d",
      "e", "f">>

\* the value of a hexadecimal digit, -1 for any other character
HexVal(c) ==
    LET at == {i \in 1..Len(HexDigits) : HexDigits[i] = ToLowerChar(c)}
    IN  IF at = {} THEN -1 ELSE SetMin(at) - 1

\* the character of an ASCII code; the control characters other than tab,
\* line feed and carriage return are one placeholder
CharOf(code) ==
    IF code >= 32 /\ code <= 126 THEN AsciiSeq[code - 31]
    ELSE IF code = 10 THEN "\n"
    ELSE IF code = 9 THEN "\t"
    ELSE IF code = 13 THEN "\r"
    ELSE "<control>"

(* decodeURIComponent: [ok |-> FALSE] is the URIError. A "%" needs two hex   *)
(* digits; an escape of 128 or more throws unless it starts a well-formed    *)
(* UTF-8 sequence of escapes, which the modelled texts never hold.           *)
RECURSIVE DecodeURIComponent(_)
DecodeURIComponent(s) ==
    IF s = <<>> THEN [ok |-> TRUE, s |-> <<>>]
    ELSE IF Head(s) # "%"
        THEN LET rest == DecodeURIComponent(Tail(s))
             IN  [ok |-> rest.ok, s |-> <<Head(s)>> \o rest.s]
    ELSE IF Len(s) < 3 \/ HexVal(s[2]) = -1 \/ HexVal(s[3]) = -1
        THEN [ok |-> FALSE, s |-> <<>>]
    ELSE IF 16 * HexVal(s[2]) + HexVal(s[3]) >= 128
        THEN [ok |-> FALSE, s |-> <<>>]
    ELSE LET rest == DecodeURIComponent(SubSeq(s, 4, Len(s)))
         IN  [ok |-> rest.ok,
              s |-> <<CharOf(16 * HexVal(s[2]) + HexVal(s[3]))>> \o rest.s]

\* s.split(c)[0]
BeforeFirst(s, c) ==
    LET i == IndexOf(s, <<c>>)
    IN  IF i = -1 THEN s ELSE SubSeq(s, 1, i)

\* parseMailtoLink: the catch leaves contactData empty
ParseMailtoLink(mailtoLink) ==
    LET emailPart == RemoveFirst(mailtoLink, StrMailto)
        email == BeforeFirst(emailPart, "?")
        decoded == DecodeURIComponent(Trim(email))
    IN  IF decoded.ok
        THEN [EmptyContact EXCEPT !["email"] = Str(decoded.s)]
        ELSE EmptyContact

\* parseTelLink without the removal of the characters outside the phone class
ParseTelUnfiltered(telLink) ==
    LET phoneNumber == Trim(RemoveFirst(telLink, StrTel))
    IN  [EmptyContact EXCEPT !["phoneNumber"] = Str(phoneNumber),
                             !["mobile"] = Str(phoneNumber)]

\* parseTelLink
ParseTelLink(telLink) ==
    LET phoneNumber == Trim(KeepOnly(RemoveFirst(telLink, StrTel), PhoneChars))
    IN  [EmptyContact EXCEPT !["phoneNumber"] = Str(phoneNumber),
                             !["mobile"] = Str(phoneNumber)]

\* firstName and lastName from a full name: split at the first space
WithName(contact, fullName) ==
    LET sp == IndexOf(fullName, <<" ">>)
    IN  IF sp # -1
        THEN [contact EXCEPT
                !["firstName"] = Str(SubSeq(fullName, 1, sp)),
                !["lastName"] = Str(SubSeq(fullName, sp + 2, Len(fullName)))]
        ELSE [contact EXCEPT !["firstName"] = Str(fullName)]

\* the first line of text that is not blank, trimmed
FirstLine(text) ==
    LET lines == SplitOn(text, "\n")
        full == {i \in 1..Len(lines) : Trim(lines[i]) # <<>>}
    IN  IF full = {} THEN <<>> ELSE Trim(lines[SetMin(full)])

\* lines.length > 0
HasLine(text) == \E i \in 1..Len(text) : text[i] \notin WhiteSpace

\* /\d{3}/
ThreeDigits == << <<Rep(Digits, 3, 3)>> >>

\* parsePlainText
ParsePlainText(text) ==
    LET Coded(contact, code) ==
            IF code.found /\ code.s # <<>>
            THEN [contact EXCEPT !["uniqueCode"] = Str(code.s)]
            ELSE contact
        Named(contact, firstLine) ==
            IF /\ HasLine(text)
               /\ Len(firstLine) < 50
               /\ ~Includes(firstLine, <<"@">>)
               /\ ~RegexSearch(firstLine, ThreeDigits, 0).found
            THEN WithName(contact, firstLine)
            ELSE contact
    IN  Named(Coded([EmptyContact EXCEPT
                        !["email"] = OrUndefined(ExtractEmail(text)),
                        !["phoneNumber"] = OrUndefined(ExtractPhone(text))],
                    ExtractUniqueCode(text)),
              FirstLine(text))

(* VCard.parse belongs to the vcard-parser package, not to this repository.  *)
(* Its result is an input of parseVCard: for each property the value of its  *)
(* first entry, a string, or an array of strings when the property's value   *)
(* holds ";" (which is how N and ADR arrive).                                *)
VCardProps == {"fn", "n", "org", "title", "email", "tel", "url", "adr", "note"}

NoProps == [p \in VCardProps |-> Absent]

StrJohn == <<"J", "o", "h", "n">>

StrDoe == <<"D", "o", "e">>

StrJohnDoe == <<"J", "o", "h", "n", " ", "D", "o", "e">>

StrAcme == <<"A", "c", "m", "e">>

StrEmailAddr == <<"a", "@", "b", ".", "c", "o">>

StrSite == <<"x", ".", "c", "o">>

StrCode == <<"A", "B", "C", "1", "2", "3", "X", "Y", "Z">>

StrCodeNote == <<"U", "n", "i", "q", "u", "e", "C", "o", "d", "e", "=", "A", "B", "C", "1", "2", "3", "X", "Y", "Z">>

StrDigits9 == <<"1", "2", "3", "4", "5", "6", "7", "8", "9">>

\* ADR: po-box, extended, street, city, region, postal, country
AdrFull ==
    Arr(<<<<>>, <<>>, <<"1", " ", "M", "a", "i", "n", " ", "S", "t">>, <<"P", "u", "n", "e">>, <<>>, <<>>, <<"I", "n", "d", "i", "a">>>>)

\* results of VCard.parse the model draws from
ParsedCards ==
    { NoProps,
      [NoProps EXCEPT !["fn"] = Str(StrJohnDoe)],
      [NoProps EXCEPT !["fn"] = Str(StrJohn), !["email"] = Str(StrEmailAddr)],
      [NoProps EXCEPT !["fn"] = Str(<<>>), !["n"] = Arr(<<StrDoe, StrJohn>>)],
      [NoProps EXCEPT !["n"] = Str(StrDoe), !["org"] = Arr(<<StrAcme, StrSite>>)],
      [NoProps EXCEPT !["fn"] = Arr(<<StrDoe, StrJohn>>)],
      [NoProps EXCEPT !["fn"] = Str(StrJohnDoe), !["note"] = Str(StrCodeNote)],
      [NoProps EXCEPT !["note"] = Str(StrDigits9)],
      [NoProps EXCEPT !["note"] = Arr(<<StrCode, StrJohn>>)],
      [NoProps EXCEPT !["fn"] = Str(StrJohnDoe), !["org"] = Str(StrAcme),
                      !["email"] = Str(StrEmailAddr), !["tel"] = Str(StrDigits9),
                      !["url"] = Str(StrSite)],
      [NoProps EXCEPT !["fn"] = Str(StrJohnDoe), !["n"] = Arr(<<StrDoe, StrJohn>>),
                      !["org"] = Str(StrAcme), !["title"] = Str(StrJohn),
                      !["email"] = Str(StrEmailAddr), !["tel"] = Str(StrDigits9),
                      !["url"] = Str(StrSite), !["adr"] = AdrFull,
                      !["note"] = Str(StrCode)] }

\* element i (0-based) of an array, <<>> when it has none
ArrAt(v, i) == IF i + 1 <= Len(v.a) THEN v.a[i + 1] ELSE <<>>

\* a statement of parseVCard's try block raises a TypeError: fullName.split
\* on an array, or text.match (in extractUniqueCode) on an array
VCardThrows(parsed) == parsed["fn"].k = "arr" \/ parsed["note"].k = "arr"

\* contactData[key] = parsed[prop][0].value when the property is there
CopyProp(contact, key, parsed, prop) ==
    IF parsed[prop].k = "absent" THEN contact
    ELSE [contact EXCEPT ![key] = parsed[prop]]

\* contactData[key] = addr[i] when that element is truthy
CopyAdr(contact, key, adr, i) ==
    IF adr.k = "arr" /\ ArrAt(adr, i) # <<>>
    THEN [contact EXCEPT ![key] = Str(ArrAt(adr, i))]
    ELSE contact

\* the structured name overrides the split of FN when it has two parts; the
\* parts of a string are its characters
WithStructuredName(contact, n) ==
    IF n.k = "arr" /\ Len(n.a) >= 2
    THEN [contact EXCEPT !["lastName"] = Str(n.a[1]), !["firstName"] = Str(n.a[2])]
    ELSE IF n.k = "str" /\ Len(n.s) >= 2
    THEN [contact EXCEPT !["lastName"] = Str(<<n.s[1]>>),
                         !["firstName"] = Str(<<n.s[2]>>)]
    ELSE contact

\* the unique code of the NOTE value, else of the raw vCard text
VCardCode(vcardText, parsed) ==
    LET OrFromText(fromNote) ==
            IF fromNote.found THEN fromNote ELSE ExtractUniqueCode(vcardText)
    IN  OrFromText(IF parsed["note"].k = "str"
                   THEN ExtractUniqueCode(parsed["note"].s)
                   ELSE NotFound)

\* parseVCard: [ok |-> FALSE] is "throw new Error('Failed to parse vCard data')"
ParseVCard(vcardText, parsed) ==
    IF VCardThrows(parsed) THEN [ok |-> FALSE, data |-> EmptyContact]
    ELSE
        LET c1 == IF parsed["fn"].k = "str"
                  THEN WithName(EmptyContact, parsed["fn"].s)
                  ELSE EmptyContact
            c2 == WithStructuredName(c1, parsed["n"])
            c3 == CopyProp(c2, "company", parsed, "org")
            c4 == CopyProp(c3, "position", parsed, "title")
            c5 == CopyProp(c4, "email", parsed, "email")
            c6 == CopyProp(c5, "phoneNumber", parsed, "tel")
            c7 == CopyProp(c6, "website", parsed, "url")
            c8 == CopyAdr(c7, "address", parsed["adr"], 2)
            c9 == CopyAdr(c8, "city", parsed["adr"], 3)
            c10 == CopyAdr(c9, "country", parsed["adr"], 6)
            Coded(contact, code) ==
                IF code.found
                THEN [contact EXCEPT !["uniqueCode"] = Str(code.s)]
                ELSE contact
        IN  [ok |-> TRUE, data |-> Coded(c10, VCardCode(vcardText, parsed))]

-----------------------------------------------------------------------------
(* processQRCode (qrCodeProcessor.service.ts 406-571) *)

\* the result record QRProcessResult; outcome tells a returned record from a
\* rejected promise, hasData / hasError / hasDetails which keys the record owns
NoQRResult ==
    [outcome |-> "none", success |-> FALSE, type |-> "none",
     hasData |-> FALSE, hasError |-> FALSE, hasDetails |-> FALSE,
     details |-> EmptyContact, entryCode |-> Absent, rawData |-> <<>>,
     confidence |-> 0, error |-> ""]

\* { success: true, type, data: { details, entryCode, rawData, confidence } }
QRSuccess(type, contactData, entryCode, rawData, confidence) ==
    [outcome |-> "returned", success |-> TRUE, type |-> type,
     hasData |-> TRUE, hasError |-> FALSE, hasDetails |-> TRUE,
     details |-> contactData, entryCode |-> entryCode, rawData |-> rawData,
     confidence |-> confidence, error |-> ""]

\* a failure record that keeps a data object beside its error
QRFailureWithData(message) ==
    [NoQRResult EXCEPT !.outcome = "returned", !.type = "plaintext",
                       !.hasError = TRUE, !.error = message, !.hasData = TRUE]

\* { success: false, type: "plaintext", error }
QRFailure(message) ==
    [NoQRResult EXCEPT !.outcome = "returned", !.type = "plaintext",
                       !.hasError = TRUE, !.error = message]

\* the promise rejects: the error leaves processQRCode
QRRejected(message) == [NoQRResult EXCEPT !.outcome = "rejected"]

\* the catch of processQRCode: error.message || "Failed to process QR code"
QRCatch(message) ==
    QRFailure(IF message # "" THEN message ELSE "Failed to process QR code")

\* the payload is a mailto link only when the prefix is in lower case
IsMailtoCaseSensitive(trimmedText) == StartsWith(trimmedText, StrMailto)

\* trimmedText.toLowerCase().startsWith('mailto:')
IsMailto(trimmedText) == StartsWith(ToLower(trimmedText), StrMailto)

\* trimmedText.toLowerCase().startsWith('tel:')
IsTel(trimmedText) == StartsWith(ToLower(trimmedText), StrTel)

\* the unique code of the parser's record never reaches entryCode
EntryCodeAlwaysEmpty(rawContactData) == Str(<<>>)

\* rawContactData.uniqueCode || ''
EntryCodeOf(rawContactData) == OrEmpty(rawContactData["uniqueCode"])

\* the entry-code result carries the caller's text untrimmed
EntryCodeUntrimmed(qrTextArg, trimmedText) ==
    [QRSuccess("entry_code", EmptyContact, Str(qrTextArg), qrTextArg, ConfOne)
        EXCEPT !.hasDetails = FALSE]

\* lines 421-432: data has entryCode, rawData and confidence, and no details
EntryCodeResult(qrTextArg, trimmedText) ==
    [QRSuccess("entry_code", EmptyContact, Str(trimmedText), trimmedText, ConfOne)
        EXCEPT !.hasDetails = FALSE]

\* lines 435-451
MailtoResult(trimmedText) ==
    LET Result(rawContactData, contactData) ==
            QRSuccess("mailto", contactData, EntryCodeOf(rawContactData),
                      trimmedText,
                      IF Truthy(contactData["email"]) THEN ConfOne ELSE ConfHalf)
        Normalized(rawContactData) ==
            Result(rawContactData, NormalizeContactData(rawContactData))
    IN  Normalized(ParseMailtoLink(trimmedText))

\* lines 454-470
TelResult(trimmedText) ==
    LET Result(rawContactData, contactData) ==
            QRSuccess("tel", contactData, EntryCodeOf(rawContactData),
                      trimmedText,
                      IF Truthy(contactData["phoneNumber"])
                      THEN ConfOne ELSE ConfHalf)
        Normalized(rawContactData) ==
            Result(rawContactData, NormalizeContactData(rawContactData))
    IN  Normalized(ParseTelLink(trimmedText))

\* lines 476-513, once scrapeWebpage has returned rawContactData
UrlResult(trimmedText, rawContactData) ==
    LET Result(contactData) ==
            QRSuccess("url", contactData, EntryCodeOf(rawContactData),
                      trimmedText,
                      ToFixed2(Min(Ratio(FieldCount(contactData), 10), ConfOne)))
    IN  Result(NormalizeContactData(rawContactData))

\* lines 517-539
VCardResult(trimmedText, parsed) ==
    LET Result(rawContactData, contactData) ==
            QRSuccess("vcard", contactData, EntryCodeOf(rawContactData),
                      trimmedText,
                      ToFixed2(Min(Ratio(FieldCount(contactData), 5), ConfOne)))
        Normalized(vcard) ==
            IF ~vcard.ok THEN QRCatch("Failed to parse vCard data")
            ELSE Result(vcard.data, NormalizeContactData(vcard.data))
    IN  Normalized(ParseVCard(trimmedText, parsed))

\* lines 541-562
PlainTextResult(trimmedText) ==
    LET Confidence(fieldCount) ==
            IF fieldCount > 0 THEN Min(Ratio(fieldCount, 3), ConfOne)
            ELSE ConfFloor
        Result(rawContactData, contactData) ==
            QRSuccess("plaintext", contactData, EntryCodeOf(rawContactData),
                      trimmedText, ToFixed2(Confidence(FieldCount(contactData))))
        Normalized(rawContactData) ==
            Result(rawContactData, NormalizeContactData(rawContactData))
    IN  Normalized(ParsePlainText(trimmedText))

-----------------------------------------------------------------------------
(* The payloads and the crawler replies the model draws from *)

\* the longest payload body, in pieces
MaxPieces == 2

\* the fragments payload bodies are built from
Pieces ==
    { StrCode,
      StrMailto,
      <<"M", "A", "I", "L", "T", "O", ":">>,
      StrTel,
      <<"T", "E", "L", ":">>,
      <<"h", "t", "t", "p", ":", "/", "/">>,
      <<"H", "T", "T", "P", "S", ":", "/", "/">>,
      StrEmailAddr,
      StrSite,
      <<"+", "1", " ", "(", "5", "5", "5", ")", " ", "1", "2", "3", "-", "4", "5", "6", "7">>,
      <<"B", "E", "G", "I", "N", ":", "V", "C", "A", "R", "D", "\n">>,
      StrEndVCard,
      StrJohnDoe,
      <<"c", "o", "d", "e", "=">>,
      StrDigits9,
      <<"%">>,
      <<"%", "4", "0">> }

\* white space before and after the body
Pads == { <<<<>>, <<>>>>, <<<<" ">>, <<"\n">>>> }

RECURSIVE PieceSeqs(_)
PieceSeqs(n) ==
    IF n = 0 THEN {<<>>}
    ELSE LET shorter == PieceSeqs(n - 1)
         IN  shorter \cup {Append(ps, p) : ps \in shorter, p \in Pieces}

\* every payload a caller passes in the model
Payloads ==
    {pad[1] \o Flatten(ps) \o pad[2] : pad \in Pads, ps \in PieceSeqs(MaxPieces)}

\* the keys a crawler reply fills in, in this order
FillKeys ==
    <<"website", "firstName", "lastName", "company", "position", "phoneNumber",
      "address", "city", "country", "title", "department", "mobile",
      "streetName">>

\* a contact whose first n FillKeys hold a string
Filled(n) ==
    [key \in ContactKeys |->
        IF \E i \in 1..n : FillKeys[i] = key THEN Str(StrSite) ELSE Absent]

\* response.data.data of a successful crawl
CrawlerData ==
    {[Filled(n) EXCEPT !["email"] = e, !["uniqueCode"] = u] :
        n \in {0, 5, Len(FillKeys)},
        e \in {Absent, Null, Str(StrEmailAddr)},
        u \in {Absent, Str(<<>>), Str(StrCode)}}

(* What axios.post gives scrapeWebpage: "error" is a rejected request (time   *)
(* out, transport error, status outside 2xx), "no_body" a response whose data *)
(* is null, "unsuccessful" a body with success false, "no_data" a body with   *)
(* success true and no data, "data" a body with success true and data.        *)
CrawlerReplies ==
    {[kind |-> k, data |-> EmptyContact] :
        k \in {"error", "no_body", "unsuccessful", "no_data"}}
    \cup {[kind |-> "data", data |-> d] : d \in CrawlerData}

\* the crawler's failure fails the request
ScrapeFailing(url, reply) ==
    IF reply.kind = "data"
    THEN [ok |-> TRUE, data |-> reply.data]
    ELSE [ok |-> FALSE, data |-> EmptyContact]

\* scrapeWebpage once the request has settled (lines 251-263)
ScrapeWebpage(url, reply) ==
    IF reply.kind = "data"
    THEN [ok |-> TRUE, data |-> reply.data]
    ELSE [ok |-> TRUE, data |-> [EmptyContact EXCEPT !["website"] = Str(url)]]

-----------------------------------------------------------------------------
(* scanBusinessCard (businessCardScanner.service.ts, src/unnamed/part_001) *)

\* the keys of BusinessCardData
CardKeys == RequiredKeys \cup {"notes"}

EmptyCard == [key \in CardKeys |-> Absent]

StrDataImage == <<"d", "a", "t", "a", ":", "i", "m", "a", "g", "e", "/">>

StrJpegPrefix == <<"d", "a", "t", "a", ":", "i", "m", "a", "g", "e", "/", "j", "p", "e", "g", ";", "b", "a", "s", "e", "6", "4", ",">>

\* /^data:image\/(jpeg|jpg|png|webp);base64,/
DataUrlPrefixes ==
    { StrJpegPrefix,
      <<"d", "a", "t", "a", ":", "i", "m", "a", "g", "e", "/", "j", "p", "g", ";", "b", "a", "s", "e", "6", "4", ",">>,
      <<"d", "a", "t", "a", ":", "i", "m", "a", "g", "e", "/", "p", "n", "g", ";", "b", "a", "s", "e", "6", "4", ",">>,
      <<"d", "a", "t", "a", ":", "i", "m", "a", "g", "e", "/", "w", "e", "b", "p", ";", "b", "a", "s", "e", "6", "4", ",">> }

\* every image passes the format check
AnyImageIsValid(imageData) == TRUE

\* isValidBase64Image
IsValidBase64Image(imageData) ==
    \/ \E prefix \in DataUrlPrefixes : StartsWith(imageData, prefix)
    \/ AllIn(imageData, AlNum \cup {"+", "/", "="})

\* formatImageDataUrl
FormatImageDataUrl(imageData) ==
    IF StartsWith(imageData, StrDataImage) THEN imageData
    ELSE StrJpegPrefix \o imageData

\* [^\s@]
NotSpaceNorAt == AnyChar \ (WhiteSpace \cup {"@"})

\* /^[^\s@]+@[^\s@]+\.[^\s@]+$/
CardEmailRegex ==
    <<Plus(NotSpaceNorAt), One({"@"}), Plus(NotSpaceNorAt), One({"."}),
      Plus(NotSpaceNorAt), EndOfText>>

\* isValidEmail
IsValidEmail(email) == MatchFrom(email, CardEmailRegex, 1, 0) # -1

\* formatPhoneNumber
FormatPhoneNumber(phone) ==
    LET cleaned == KeepOnly(phone, Digits \cup {"+"})
    IN  IF Includes(cleaned, <<"+">>)
        THEN <<"+">> \o KeepOnly(cleaned, Digits)
        ELSE cleaned

StrHttpSlashes == <<"h", "t", "t", "p", ":", "/", "/">>

StrHttpsSlashes == <<"h", "t", "t", "p", "s", ":", "/", "/">>

\* the website of validateAndCleanData
CleanWebsite(site) ==
    LET website == ToLower(Trim(site))
    IN  IF ~StartsWith(website, StrHttpSlashes) /\ ~StartsWith(website, StrHttpsSlashes)
        THEN StrHttpsSlashes \o website
        ELSE website

\* validateAndCleanData raises a TypeError: a truthy field that is no string
\* has no trim (and formatPhoneNumber's argument no replace)
CleanThrows(data) == \E key \in CardKeys : data[key].k = "num"

\* validateAndCleanData, for data that does not make it throw
ValidateAndCleanData(data) ==
    [key \in CardKeys |->
        IF ~Truthy(data[key]) THEN Absent
        ELSE IF key = "email"
            THEN IF IsValidEmail(Trim(data[key].s))
                 THEN Str(ToLower(Trim(data[key].s)))
                 ELSE Absent
        ELSE IF key = "phoneNumber" THEN Str(FormatPhoneNumber(data[key].s))
        ELSE IF key = "website" THEN Str(CleanWebsite(data[key].s))
        ELSE Str(Trim(data[key].s))]

\* Object.keys(cleanedData).length
TotalFields(cleanedData) ==
    Cardinality({key \in CardKeys : cleanedData[key].k # "absent"})

\* the record ScanResult
NoCardResult ==
    [outcome |-> "none", success |-> FALSE, hasData |-> FALSE, hasError |-> FALSE,
     ocrText |-> "", details |-> EmptyCard, confidence |-> 0, error |-> ""]

CardFailure(message) ==
    [NoCardResult EXCEPT !.outcome = "returned", !.hasError = TRUE,
                         !.error = message]

CardRejected(code, message) == [NoCardResult EXCEPT !.outcome = "rejected"]

\* the catch of scanBusinessCard (lines 257-286)
CardCatch(code, message) ==
    IF code = "invalid_api_key" THEN CardFailure("Invalid OpenAI API key")
    ELSE IF code = "rate_limit_exceeded"
        THEN CardFailure("OpenAI API rate limit exceeded. Please try again later.")
    ELSE IF code = "insufficient_quota"
        THEN CardFailure("OpenAI API quota exceeded. Please check your billing.")
    ELSE CardFailure(IF message # "" THEN message
                     ELSE "Failed to scan business card")

\* lines 240-256
CardSuccess(messageContent, extractedData) ==
    LET cleanedData == ValidateAndCleanData(extractedData)
        confidence == Min(Ratio(TotalFields(cleanedData), 6), ConfOne)
    IN  [outcome |-> "returned", success |-> TRUE, hasData |-> TRUE,
         hasError |-> FALSE, ocrText |-> messageContent, details |-> cleanedData,
         confidence |-> ToFixed2(confidence), error |-> ""]

\* the images a caller passes in the model
Images ==
    {prefix \o body :
        prefix \in {<<>>, <<"d", "a", "t", "a", ":", "i", "m", "a", "g", "e", "/", "p", "n", "g", ";", "b", "a", "s", "e", "6", "4", ",">>,
                    <<"d", "a", "t", "a", ":", "i", "m", "a", "g", "e", "/", "g", "i", "f", ";", "b", "a", "s", "e", "6", "4", ",">>},
        body \in {<<>>, <<"Q", "U", "J", "D">>, <<"Q", "U", "+", "/", "=">>, <<"a", " ", "b">>}}

\* the other keys the vision model fills in, in this order
CardFillKeys ==
    <<"lastName", "company", "position", "address", "city", "country", "notes">>

\* the JSON objects the vision model answers with in the model
CardData ==
    {[key \in CardKeys |->
        IF key = "firstName" THEN f
        ELSE IF key = "email" THEN e
        ELSE IF key = "phoneNumber" THEN ph
        ELSE IF key = "website" THEN w
        ELSE IF \E i \in 1..n : CardFillKeys[i] = key THEN Str(StrAcme)
        ELSE Null] :
        f \in {Absent, Null, Num, Str(<<" ">>), Str(<<" ", "J", "o", "h", "n", " ">>)},
        e \in {Absent, Str(<<" ", "A", "@", "b", ".", "c", "o">>), Str(<<"a", "b">>)},
        ph \in {Absent, Str(<<"+", "1", " ", "(", "5", "5", "5", ")", " ", "1", "2", "3", "-", "4", "5", "6", "7">>), Str(<<"1", "2", "+", "3", "4">>)},
        w \in {Absent, Str(<<"X", ".", "c", "o">>)},
        n \in {0, 3, Len(CardFillKeys)}}

(* What openai.chat.completions.create gives: "throw" is a rejected request  *)
(* with the error's code and message; "no_content" a response whose first    *)
(* choice has no content; "content" a text, by what the JSON parsing of      *)
(* lines 224-238 makes of it: "object" a JSON object, "prose_object" a JSON  *)
(* object inside other text, "bad_object" braces around invalid JSON,        *)
(* "not_json" a text without braces that is no JSON, "null" the JSON null,   *)
(* "scalar" a JSON number or string.                                         *)
NoReply ==
    [kind |-> "none", code |-> "", message |-> "", form |-> "", data |-> EmptyCard]

VisionReplies ==
    {[NoReply EXCEPT !.kind = "throw", !.code = c, !.message = m] :
        c \in {"invalid_api_key", "rate_limit_exceeded", "insufficient_quota",
               "other"},
        m \in {"", "Connection error."}}
    \cup {[NoReply EXCEPT !.kind = "no_content"]}
    \cup {[NoReply EXCEPT !.kind = "content", !.form = f] :
            f \in {"bad_object", "not_json", "null", "scalar"}}
    \cup {[NoReply EXCEPT !.kind = "content", !.form = f, !.data = d] :
            f \in {"object", "prose_object"}, d \in CardData}

\* lines 210-256 and the catch, once the vision request has settled
VisionResult(reply) ==
    IF reply.kind = "throw" THEN CardCatch(reply.code, reply.message)
    ELSE IF reply.kind = "no_content"
        THEN CardFailure("No response from OpenAI API")
    ELSE IF reply.form \in {"bad_object", "not_json"}
        THEN CardFailure("Failed to parse extracted data from business card")
    ELSE IF reply.form = "null"
        THEN CardCatch("", "Cannot read properties of null (reading 'firstName')")
    ELSE IF reply.form = "scalar" THEN CardSuccess(reply.form, EmptyCard)
    ELSE IF CleanThrows(reply.data)
        THEN CardCatch("", "data.firstName.trim is not a function")
    ELSE CardSuccess(reply.form, reply.data)

-----------------------------------------------------------------------------
(* One-time passwords (controllers/auth.controller.ts, models/otp.model.ts). *)
(* A user's email stands for the user: the schema makes email unique, so    *)
(* findOne({ email }) and findById find the same document. Passwords are    *)
(* texts; the hash of a password is modelled by the password itself.        *)

\* the verification requests of one behaviour that find a document
MaxRequests == 2

\* the one-time passwords created in one behaviour
MaxOTPs == 2

\* the _id (and email) of the users in UserModel
UserIds == {"u1", "u2"}

StrPassword == <<"p", "w", "1", "2", "3", "4">>

StrNewPassword == <<"n", "e", "w", "p", "w", "1">>

\* the users at the start: u1 has enabled two-factor login, u2 has not
InitialUsers ==
    [u \in UserIds |->
        [password |-> StrPassword, twoFactorEnabled |-> (u = "u1"),
         isVerified |-> FALSE, isActive |-> TRUE]]

\* const otp = "000000"
BypassOTP == "000000"

\* enum of the path purpose in OTPSchema
OTPPurposeEnum == {"login", "enable_2fa", "disable_2fa"}

\* no document: what findOne resolves to when nothing matches (null)
NoOTP ==
    [id |-> 0, userId |-> "", otp |-> "", purpose |-> "", isUsed |-> FALSE,
     expired |-> FALSE]

\* OTPModel.create({ userId, otp, purpose, expiresAt }): the validation of the
\* document rejects a purpose that is not in the enum of the schema; isUsed
\* defaults to false, and expired tells whether expiresAt has passed
OTPCreate(docs, userId, purpose) ==
    IF purpose \in OTPPurposeEnum
    THEN [ok |-> TRUE,
          docs |-> Append(docs, [id |-> Len(docs) + 1, userId |-> userId,
                                 otp |-> BypassOTP, purpose |-> purpose,
                                 isUsed |-> FALSE, expired |-> FALSE])]
    ELSE [ok |-> FALSE, docs |-> docs]

\* the filter { userId, otp, purpose, isUsed: false, expiresAt: { $gt: now } }
\* without its userId
OTPMatchesAnyUser(doc, userId, otp, purpose) ==
    /\ doc.otp = otp
    /\ doc.purpose = purpose
    /\ ~doc.isUsed
    /\ ~doc.expired

\* the filter { userId, otp, purpose, isUsed: false, expiresAt: { $gt: now } }
OTPMatches(doc, userId, otp, purpose) ==
    /\ doc.userId = userId
    /\ doc.otp = otp
    /\ doc.purpose = purpose
    /\ ~doc.isUsed
    /\ ~doc.expired

\* OTPModel.findOne(filter): the first matching document in the order of
\* creation, as it is stored at the time of the query
OTPFindOne(docs, userId, otp, purpose) ==
    LET First(found) == IF found = {} THEN NoOTP ELSE docs[SetMin(found)]
    IN  First({i \in 1..Len(docs) : OTPMatches(docs[i], userId, otp, purpose)})

\* otpRecord.save() after otpRecord.isUsed = true: the update sets isUsed on
\* the stored document with that _id, whatever its value is by then
OTPSaveUsed(docs, otpRecord) == [docs EXCEPT ![otpRecord.id].isUsed = TRUE]

\* loginUser(data) of auth.service.ts: the token it signs (named by the user
\* it is signed for), or the error it throws
LoginUser(us, email, password, skipPasswordCheck) ==
    IF email \notin DOMAIN us
    THEN [ok |-> FALSE, message |-> "Invalid email or password", token |-> ""]
    ELSE IF ~us[email].isActive
    THEN [ok |-> FALSE, message |-> "Your account has been deactivated",
          token |-> ""]
    ELSE IF ~skipPasswordCheck /\ password # us[email].password
    THEN [ok |-> FALSE, message |-> "Invalid email or password", token |-> ""]
    ELSE [ok |-> TRUE, message |-> "", token |-> email]

\* res.status(status).json(...); token is "" when the body has none
AuthResponse(handler, userId, status, message, requires2FA, token) ==
    [handler |-> handler, userId |-> userId, status |-> status,
     message |-> message, requires2FA |-> requires2FA, token |-> token]

NoResponse == AuthResponse("none", "", 0, "", FALSE, "")

\* a verification request: pc is "found" between the findOne that gave
\* otpRecord and the save, "done" once the response (status, message, token)
\* has been sent; newPassword is held while the handler runs
NoCall ==
    [handler |-> "none", userId |-> "", newPassword |-> <<>>, pc |-> "none",
     otpRecord |-> NoOTP, status |-> 0, message |-> "", token |-> ""]

\* the purpose each verification handler queries
PurposeOf(handler) ==
    CASE handler = "verifyLoginOTP" -> "login"
      [] handler = "verifyUserOTP" -> "verification"
      [] handler = "resetPassword" -> "forgot_password"

-----------------------------------------------------------------------------
(* createExhibitor (controllers/admin.controller.ts) with the registerUser  *)
(* of services/auth.service.ts that it calls. A field of the request body   *)
(* is Undefined or a Str; messages are texts.                               *)

\* const REQUIRED_FIELDS
REQUIRED_FIELDS == <<"firstName", "lastName">>

\* the name of a required field as a text
FieldText(field) ==
    CASE field = "firstName" -> <<"f", "i", "r", "s", "t", "N", "a", "m", "e">>
      [] field = "lastName" -> <<"l", "a", "s", "t", "N", "a", "m", "e">>

\* no field is reported missing
NoMissingFields(body) == <<>>

\* REQUIRED_FIELDS.filter((field) => !req.body?.[field])
MissingFields(body) ==
    LET Missing(field) == ~Truthy(body[field])
    IN  SelectSeq(REQUIRED_FIELDS, Missing)

\* fields.join(", ")
RECURSIVE JoinFields(_)
JoinFields(fields) ==
    IF Len(fields) = 0 THEN <<>>
    ELSE IF Len(fields) = 1 THEN FieldText(fields[1])
    ELSE FieldText(fields[1]) \o <<",", " ">> \o JoinFields(Tail(fields))

\* /^[^\s@]+@[^\s@]+\.[^\s@]+$/.test(email): one "@", no white space, a text
\* before the "@", and after it a "." with a text on either side
EmailRegexTest(email) ==
    /\ \A i \in 1..Len(email) : email[i] \notin WhiteSpace
    /\ Cardinality({i \in 1..Len(email) : email[i] = "@"}) = 1
    /\ \E i \in 2..Len(email) :
          /\ email[i] = "@"
          /\ \E j \in (i + 2)..(Len(email) - 1) : email[j] = "."

\* normalizeEmail
NormalizeEmail(email) == ToLower(Trim(email))

\* the chars of generateRandomPassword
PasswordChars ==
    (Uppers \ {"I", "O"}) \cup (Lowers \ {"l"}) \cup Digits
        \cup {"!", "@", "$", "%", "*", "?"}

\* what generateRandomPassword() returns: Math.random picks each of the 12
\* characters; these two texts stand for all of them
GeneratedPasswords ==
    {<<"X", "k", "3", "!", "m", "Q", "9", "$", "w", "R", "t", "7">>,
     <<"a", "2", "B", "?", "c", "4", "D", "*", "e", "6", "F", "%">>}

\* the password is passed on as the request gave it
SuppliedPasswordOnly(password, generated) == password

\* password || generateRandomPassword()
FinalPassword(password, generated) ==
    IF Truthy(password) THEN password ELSE Str(generated)

\* the argument createExhibitor builds for registerUser; a key the spread
\* leaves out is Undefined
RegisterUserDTO(body, finalPassword) ==
    LET Spread(value) == IF Truthy(value) THEN value ELSE Undefined
        normalizedEmail ==
            IF Truthy(body.email) THEN Str(NormalizeEmail(body.email.s))
            ELSE Undefined
    IN  [firstName |-> Str(Trim(body.firstName.s)),
         lastName |-> Str(Trim(body.lastName.s)),
         email |-> Spread(normalizedEmail),
         phoneNumber |-> IF Truthy(body.phoneNumber)
                         THEN Str(Trim(body.phoneNumber.s)) ELSE Undefined,
         companyName |-> IF Truthy(body.companyName)
                         THEN Str(Trim(body.companyName.s)) ELSE Undefined,
         password |-> finalPassword,
         roleName |-> "EXHIBITOR"]

\* a document of UserModel as registerUser creates it, but for its password
\* (a hash that no query selects)
NewUser(data) ==
    [firstName |-> data.firstName, lastName |-> data.lastName,
     email |-> data.email, phoneNumber |-> data.phoneNumber,
     role |-> data.roleName, companyName |-> data.companyName]

\* the user of the value registerUser resolves with
ReturnedUser(newUser) ==
    [firstName |-> newUser.firstName, lastName |-> newUser.lastName,
     email |-> newUser.email, phoneNumber |-> newUser.phoneNumber,
     role |-> newUser.role, companyName |-> newUser.companyName]

NoUser ==
    [firstName |-> Undefined, lastName |-> Undefined, email |-> Undefined,
     phoneNumber |-> Undefined, role |-> "", companyName |-> Undefined]

\* registerUser(data) on the collection us; roleFound tells whether
\* RoleModel.findOne finds the role. UserModel.create rejects a document
\* whose required firstName, lastName or email is missing or empty (the
\* message of that error names the paths; its first words are kept)
RegisterUser(data, us, roleFound) ==
    LET Rejects(message) ==
            [ok |-> FALSE, message |-> message, users |-> us, user |-> NoUser]
    IN  IF ~Truthy(data.email) /\ ~Truthy(data.phoneNumber)
        THEN Rejects(<<"A", "t", " ", "l", "e", "a", "s", "t", " ", "o", "n", "e", " ", "o", "f", " ", "e", "m", "a", "i", "l", " ", "o", "r", " ", "p", "h", "o", "n", "e", "N", "u", "m", "b", "e", "r", " ", "m", "u", "s", "t", " ", "b", "e", " ", "p", "r", "o", "v", "i", "d", "e", "d">>)
        ELSE IF \E i \in 1..Len(us) : us[i].email = data.email
        THEN Rejects(<<"U", "s", "e", "r", " ", "w", "i", "t", "h", " ", "t", "h", "i", "s", " ", "e", "m", "a", "i", "l", " ", "a", "l", "r", "e", "a", "d", "y", " ", "e", "x", "i", "s", "t", "s">>)
        ELSE IF ~roleFound
        THEN Rejects(<<"R", "o", "l", "e", " ", "'", "E", "X", "H", "I", "B", "I", "T", "O", "R", "'", " ", "n", "o", "t", " ", "f", "o", "u", "n", "d">>)
        ELSE IF ~Truthy(data.firstName) \/ ~Truthy(data.lastName)
                \/ ~Truthy(data.email)
        THEN Rejects(<<"U", "s", "e", "r", "s", " ", "v", "a", "l", "i", "d", "a", "t", "i", "o", "n", " ", "f", "a", "i", "l", "e", "d">>)
        ELSE [ok |-> TRUE, message |-> <<>>,
              users |-> Append(us, NewUser(data)),
              user |-> ReturnedUser(NewUser(data))]

\* a request body of createExhibitor
ExhibitorBody(firstName, lastName, email, phoneNumber, companyName, password) ==
    [firstName |-> firstName, lastName |-> lastName, email |-> email,
     phoneNumber |-> phoneNumber, companyName |-> companyName,
     password |-> password]

\* one call of createExhibitor: its request body, the arguments of its calls
\* of registerUser, its calls of next, and its response (temporaryPassword is
\* Undefined when the payload has none)
NoExhibitorCall ==
    [body |-> ExhibitorBody(Undefined, Undefined, Undefined, Undefined,
                            Undefined, Undefined),
     registerUser |-> <<>>, next |-> 0, status |-> 0, message |-> <<>>,
     data |-> NoUser, temporaryPassword |-> Undefined]

-----------------------------------------------------------------------------
(* batchScanBusinessCards (lines 292-303 of the card scanner)                *)

\* the images of one call of batchScanBusinessCards at most
MaxImages == 2

\* the images of the batches: one that reaches the vision model, one that
\* isValidBase64Image refuses
BatchImages == {<<"Q", "U", "J", "D">>, <<"a", " ", "b">>}

\* a card the vision model reads completely
FullCard ==
    CHOOSE d \in CardData :
        /\ d.firstName = Str(<<" ", "J", "o", "h", "n", " ">>)
        /\ d.email = Str(<<" ", "A", "@", "b", ".", "c", "o">>)
        /\ d.phoneNumber = Str(<<"1", "2", "+", "3", "4">>)
        /\ d.website = Str(<<"X", ".", "c", "o">>)
        /\ d.notes = Str(StrAcme)

\* what the vision model answers during a batch
BatchReplies ==
    { [NoReply EXCEPT !.kind = "throw", !.code = "rate_limit_exceeded"],
      [NoReply EXCEPT !.kind = "no_content"],
      [NoReply EXCEPT !.kind = "content", !.form = "object", !.data = FullCard] }

\* no call of batchScanBusinessCards is in progress
NoBatch == [status |-> "idle", images |-> <<>>, results |-> <<>>]

\* what scanBusinessCard(imageBase64) can return, whatever was scanned before
ScanResults(imageBase64) ==
    IF ~apiKeySet
    THEN {CardFailure(
            "OpenAI API key not configured. Please set OPENAI_API_KEY in environment variables.")}
    ELSE IF ~IsValidBase64Image(imageBase64)
    THEN {CardFailure(
            "Invalid image format. Please provide a valid base64 encoded image.")}
    ELSE {VisionResult(reply) : reply \in BatchReplies}

-----------------------------------------------------------------------------
(* createRsvp and cancelRsvp of the RSVP controller, on one event            *)

\* the requests to createRsvp and cancelRsvp in progress at a time
MaxRsvpRequests == 2

\* the documents of RsvpModel created in one behaviour
MaxRsvps == 2

\* licenseKeys[].key of the event; "NONE" is the key of no event
LicenseKeyIds == {"KEY1", "KEY2", "OLD"}

\* the licenseKeys of the event: maxActivations defaults to 1, usedCount to 0;
\* expired stands for expiresAt lying before the time of the request
InitialLicenseKeys ==
    [key \in LicenseKeyIds |->
        [isActive |-> TRUE, expired |-> (key = "OLD"),
         maxActivations |-> IF key = "KEY2" THEN 2 ELSE 1, usedCount |-> 0]]

\* a slot without a request
NoRsvpCall ==
    [handler |-> "none", pc |-> "idle", userId |-> "", key |-> "", rsvpId |-> 0,
     status |-> 0, message |-> ""]

\* RsvpModel.findOne({ eventId, userId, isDeleted: false }) finds a document
HasRsvp(docs, userId) ==
    \E i \in 1..Len(docs) : docs[i].userId = userId /\ ~docs[i].isDeleted

\* RsvpModel.findOne({ _id: rsvpId, userId, isDeleted: false }) finds a document
FindsRsvp(docs, rsvpId, userId) ==
    /\ rsvpId \in 1..Len(docs)
    /\ docs[rsvpId].userId = userId
    /\ ~docs[rsvpId].isDeleted

\* { $inc: { "licenseKeys.$.usedCount": amount } } on the key of the event
IncUsedCount(keys, key, amount) ==
    IF key \in DOMAIN keys
    THEN [keys EXCEPT ![key].usedCount = @ + amount]
    ELSE keys

\* the non-deleted documents of RsvpModel created with key
ActiveRsvps(docs, key) ==
    {i \in 1..Len(docs) : docs[i].eventLicenseKey = key /\ ~docs[i].isDeleted}

\* the non-deleted documents of RsvpModel of userId
RsvpsOf(docs, userId) ==
    {i \in 1..Len(docs) : docs[i].userId = userId /\ ~docs[i].isDeleted}

-----------------------------------------------------------------------------
(* The meeting reminders: startMeetingReminderCron and                       *)
(* checkAndSendMeetingReminders                                              *)

\* the _id of the meetings
MeetingIds == {"m1", "m2", "m3"}

\* the order in which MeetingModel.find returns the meetings
MeetingOrder == <<"m1", "m2", "m3">>

\* who processes the meetings: the scheduled job and the on-demand check
Runners == {"cron", "check"}

\* the meetings at the start: all start within the next hour and none has a
\* reminder; the user of m3 has no FCM token
InitialMeetings ==
    [meetingId \in MeetingIds |->
        [meetingStatus |-> "scheduled", notifyAttendees |-> TRUE,
         reminderSent |-> FALSE, isDeleted |-> FALSE, startsWithinWindow |-> TRUE,
         fcmTokens |-> IF meetingId = "m3" THEN 0 ELSE 1]]

\* a runner that is not processing
NoRun == [pc |-> "idle", found |-> <<>>, total |-> 0, sent |-> 0, failed |-> 0]

\* the turns of the loop over found that end without an await: the meetings
\* at the head of found whose user has no FCM token are passed over; failed
\* counts the meetings a pass gave up, which the scheduled job logs and the
\* on-demand check returns
RECURSIVE NextToSend(_, _)
NextToSend(docs, run) ==
    IF run.found = <<>> THEN [run EXCEPT !.pc = "done"]
    ELSE IF docs[Head(run.found)].fcmTokens = 0
        THEN NextToSend(docs, [run EXCEPT !.found = Tail(@), !.failed = @ + 1])
    ELSE [run EXCEPT !.pc = "sending"]

\* the filter of MeetingModel.find in both functions
NeedsReminder(meeting) ==
    /\ meeting.startsWithinWindow
    /\ meeting.meetingStatus = "scheduled"
    /\ meeting.notifyAttendees
    /\ ~meeting.reminderSent
    /\ ~meeting.isDeleted

\* the meetings of order, from position i on, that the filter lets through
RECURSIVE FindMeetings(_, _, _)
FindMeetings(docs, order, i) ==
    IF i > Len(order) THEN <<>>
    ELSE IF NeedsReminder(docs[order[i]])
        THEN <<order[i]>> \o FindMeetings(docs, order, i + 1)
    ELSE FindMeetings(docs, order, i + 1)

-----------------------------------------------------------------------------
(* The state machine: one call at a time, observed from its start until the  *)
(* caller has taken its result. qrText, qrResult and crawlerCalls describe   *)
(* the processQRCode call, image, cardResult and visionCalls the             *)
(* scanBusinessCard call.                                                    *)

Init ==
    /\ pc = "idle"
    /\ qrText = <<>>
    /\ qrResult = NoQRResult
    /\ crawlerCalls = <<>>
    /\ apiKeySet \in BOOLEAN
    /\ image = <<>>
    /\ cardResult = NoCardResult
    /\ visionCalls = 0
    /\ otps = <<>>
    /\ users = InitialUsers
    /\ calls = [slot \in 1..MaxRequests |-> NoCall]
    /\ response = NoResponse
    /\ exhibitors = <<>>
    /\ admin = NoExhibitorCall
    /\ batch = NoBatch
    /\ licenseKeys = InitialLicenseKeys
    /\ rsvps = <<>>
    /\ rsvpCalls = [slot \in 1..MaxRsvpRequests |-> NoRsvpCall]
    /\ meetings = InitialMeetings
    /\ runs = [runner \in Runners |-> NoRun]
    /\ delivered = [meetingId \in MeetingIds |-> 0]

\* no call is in progress
Ready == pc = "idle"

\* processQRCode returns result after a request to the crawler
QRReturnsCrawling(result) ==
    /\ qrResult' = result
    /\ crawlerCalls' = <<Trim(qrText')>>
    /\ pc' = "qr_done"

\* processQRCode returns result without having called the crawler
QRReturns(result) ==
    /\ qrResult' = result
    /\ crawlerCalls' = <<>>
    /\ pc' = "qr_done"

\* processQRCode(qrTextArg) up to its return or its await of scrapeWebpage;
\* parsed is what VCard.parse returns if the call reaches parseVCard
ProcessQRCode(qrTextArg, parsed) ==
    LET Branches(trimmedText) ==
            IF Len(trimmedText) = 0
            THEN QRReturns(QRFailure("QR code text is empty"))
            ELSE IF IsEntryCode(trimmedText)
            THEN QRReturns(EntryCodeResult(qrTextArg, trimmedText))
            ELSE IF IsMailto(trimmedText)
            THEN QRReturns(MailtoResult(trimmedText))
            ELSE IF IsTel(trimmedText)
            THEN QRReturns(TelResult(trimmedText))
            ELSE IF IsURL(trimmedText)
            THEN /\ qrResult' = NoQRResult
                 /\ crawlerCalls' = <<trimmedText>>
                 /\ pc' = "qr_await"
            ELSE IF IsVCard(trimmedText)
            THEN QRReturns(VCardResult(trimmedText, parsed))
            ELSE QRReturns(PlainTextResult(trimmedText))
    IN  /\ Ready
        /\ qrText' = qrTextArg
        /\ UNCHANGED <<apiKeySet, image, cardResult, visionCalls, authVars, adminVars, otherVars>>
        /\ Branches(Trim(qrTextArg))

\* the crawler request settles and processQRCode runs to its return
CrawlerSettles(reply) ==
    LET trimmedText == Trim(qrText)
        scraped == ScrapeWebpage(trimmedText, reply)
    IN  /\ pc = "qr_await"
        /\ qrResult' = IF scraped.ok THEN UrlResult(trimmedText, scraped.data)
                       ELSE QRCatch("timeout of 45000ms exceeded")
        /\ pc' = "qr_done"
        /\ UNCHANGED <<qrText, crawlerCalls, apiKeySet, image,
                       cardResult, visionCalls, authVars, adminVars, otherVars>>

\* scanBusinessCard(imageBase64) up to its return or its await of the vision call
ScanBusinessCard(imageBase64) ==
    /\ Ready
    /\ image' = imageBase64
    /\ UNCHANGED <<apiKeySet, qrText, qrResult, crawlerCalls, authVars, adminVars, otherVars>>
    /\ IF ~apiKeySet
       THEN /\ cardResult' = CardFailure(
                 "OpenAI API key not configured. Please set OPENAI_API_KEY in environment variables.")
            /\ visionCalls' = 0
            /\ pc' = "card_done"
       ELSE IF ~IsValidBase64Image(imageBase64)
       THEN /\ cardResult' = CardFailure(
                 "Invalid image format. Please provide a valid base64 encoded image.")
            /\ visionCalls' = 0
            /\ pc' = "card_done"
       ELSE /\ cardResult' = NoCardResult
            /\ visionCalls' = 1
            /\ pc' = "card_await"

\* the vision request settles and scanBusinessCard runs to its return
VisionSettles(reply) ==
    /\ pc = "card_await"
    /\ cardResult' = VisionResult(reply)
    /\ pc' = "card_done"
    /\ UNCHANGED <<qrText, qrResult, crawlerCalls, apiKeySet, image,
                   visionCalls, authVars, adminVars, otherVars>>

\* the caller takes the result of the finished call
Return ==
    /\ pc \in {"qr_done", "card_done"}
    /\ pc' = "idle"
    /\ qrText' = <<>>
    /\ qrResult' = NoQRResult
    /\ crawlerCalls' = <<>>
    /\ image' = <<>>
    /\ cardResult' = NoCardResult
    /\ visionCalls' = 0
    /\ UNCHANGED <<apiKeySet, authVars, adminVars, otherVars>>

Next ==
    \/ \E qrTextArg \in Payloads :
          \E parsed \in (IF IsVCard(Trim(qrTextArg))
                         THEN ParsedCards ELSE {NoProps}) :
              ProcessQRCode(qrTextArg, parsed)
    \/ \E reply \in CrawlerReplies : CrawlerSettles(reply)
    \/ \E imageBase64 \in Images : ScanBusinessCard(imageBase64)
    \/ \E reply \in VisionReplies : VisionSettles(reply)
    \/ Return

Spec == Init /\ [][Next]_vars

-----------------------------------------------------------------------------
(* The authentication handlers. login, sendVerificationOTP and              *)
(* forgotPassword are taken from their request to their response, and so is *)
(* a verification handler that finds no document. One that finds a document *)
(* is taken in two steps, since other requests run between its "await       *)
(* OTPModel.findOne" and its "await otpRecord.save()".                      *)

\* the slot a new verification request takes, 0 when all are taken
FreeSlot ==
    LET free == {slot \in 1..MaxRequests : calls[slot].handler = "none"}
    IN  IF free = {} THEN 0 ELSE SetMin(free)

\* login (auth.controller.ts 73-148)
Login(email, password) ==
    LET Failed(status, message) ==
            /\ response' = AuthResponse("login", email, status, message, FALSE, "")
            /\ otps' = otps
        Requires2FA(created) ==
            /\ otps' = created.docs
            /\ response' =
                  IF created.ok
                  THEN AuthResponse("login", email, 200, "OTP sent to your email",
                                    TRUE, "")
                  ELSE AuthResponse("login", email, 401, "OTP validation failed",
                                    FALSE, "")
        LoggedIn(result) ==
            /\ otps' = otps
            /\ response' =
                  IF result.ok
                  THEN AuthResponse("login", email, 200, "Login successful",
                                    FALSE, result.token)
                  ELSE AuthResponse("login", email, 401, result.message, FALSE, "")
    IN  /\ Len(otps) < MaxOTPs
        /\ UNCHANGED <<scanVars, adminVars, otherVars, users, calls>>
        /\ IF email = "" \/ password = <<>>
           THEN Failed(400, "Email and password are required")
           ELSE IF email \notin UserIds
           THEN Failed(401, "Invalid email or password")
           ELSE IF password # users[email].password
           THEN Failed(401, "Invalid email or password")
           ELSE IF users[email].twoFactorEnabled
           THEN Requires2FA(OTPCreate(otps, email, "login"))
           ELSE LoggedIn(LoginUser(users, email, password, FALSE))

\* sendVerificationOTP (auth.controller.ts 239-302)
SendVerificationOTP(userId) ==
    LET Responds(status, message) ==
            response' = AuthResponse("sendVerificationOTP", userId, status,
                                     message, FALSE, "")
        Creates(created) ==
            /\ otps' = created.docs
            /\ IF created.ok
               THEN Responds(200, "Verification OTP sent successfully")
               ELSE Responds(400, "OTP validation failed")
    IN  /\ Len(otps) < MaxOTPs
        /\ UNCHANGED <<scanVars, adminVars, otherVars, users, calls>>
        /\ IF userId = ""
           THEN otps' = otps /\ Responds(400, "User ID is required")
           ELSE IF userId \notin UserIds
           THEN otps' = otps /\ Responds(404, "User not found")
           ELSE IF users[userId].isVerified
           THEN otps' = otps /\ Responds(400, "User is already verified")
           ELSE Creates(OTPCreate(otps, userId, "verification"))

\* forgotPassword (auth.controller.ts 366-414)
ForgotPassword(email) ==
    LET Responds(status, message) ==
            response' = AuthResponse("forgotPassword", email, status, message,
                                     FALSE, "")
        Creates(created) ==
            /\ otps' = created.docs
            /\ IF created.ok
               THEN Responds(200, "Password reset OTP sent successfully")
               ELSE Responds(400, "OTP validation failed")
    IN  /\ Len(otps) < MaxOTPs
        /\ UNCHANGED <<scanVars, adminVars, otherVars, users, calls>>
        /\ IF email = ""
           THEN otps' = otps /\ Responds(400, "Email is required")
           ELSE IF email \notin UserIds
           THEN otps' = otps /\ Responds(404, "User with this email does not exist")
           ELSE Creates(OTPCreate(otps, email, "forgot_password"))

\* a verification handler that stores the new password of the request before
\* it validates the request
FindsOTPStoringPassword(slot, handler, userId, newPassword, rejected, otpRecord) ==
    IF rejected # "" \/ otpRecord = NoOTP
    THEN /\ response' =
               AuthResponse(handler, userId, 400,
                            IF rejected # "" THEN rejected
                            ELSE "Invalid or expired OTP",
                            FALSE, "")
         /\ users' = IF userId \in UserIds /\ newPassword # <<>>
                     THEN [users EXCEPT ![userId].password = newPassword]
                     ELSE users
         /\ UNCHANGED <<scanVars, adminVars, otherVars, otps, calls>>
    ELSE /\ slot # 0
         /\ calls' = [calls EXCEPT ![slot] =
               [NoCall EXCEPT !.handler = handler, !.userId = userId,
                              !.newPassword = newPassword, !.pc = "found",
                              !.otpRecord = otpRecord]]
         /\ UNCHANGED <<scanVars, adminVars, otherVars, otps, users, response>>

\* a verification handler from its start to its findOne: it responds 400 at
\* once, or takes a slot of calls with the document found and goes on to
\* save it
FindsOTP(slot, handler, userId, newPassword, rejected, otpRecord) ==
    IF rejected # "" \/ otpRecord = NoOTP
    THEN /\ response' =
               AuthResponse(handler, userId, 400,
                            IF rejected # "" THEN rejected
                            ELSE "Invalid or expired OTP",
                            FALSE, "")
         /\ UNCHANGED <<scanVars, adminVars, otherVars, otps, users, calls>>
    ELSE /\ slot # 0
         /\ calls' = [calls EXCEPT ![slot] =
               [NoCall EXCEPT !.handler = handler, !.userId = userId,
                              !.newPassword = newPassword, !.pc = "found",
                              !.otpRecord = otpRecord]]
         /\ UNCHANGED <<scanVars, adminVars, otherVars, otps, users, response>>

\* verifyLoginOTP (auth.controller.ts 151-177)
VerifyLoginOTP(userId, otp) ==
    FindsOTP(FreeSlot, "verifyLoginOTP", userId, <<>>,
             IF userId = "" \/ otp = "" THEN "User ID and OTP are required" ELSE "",
             OTPFindOne(otps, userId, otp, "login"))

\* verifyUserOTP (auth.controller.ts 305-331)
VerifyUserOTP(userId, otp) ==
    FindsOTP(FreeSlot, "verifyUserOTP", userId, <<>>,
             IF userId = "" \/ otp = "" THEN "User ID and OTP are required" ELSE "",
             OTPFindOne(otps, userId, otp, "verification"))

\* resetPassword (auth.controller.ts 417-450)
ResetPassword(userId, otp, newPassword) ==
    FindsOTP(FreeSlot, "resetPassword", userId, newPassword,
             IF userId = "" \/ otp = "" \/ newPassword = <<>>
             THEN "User ID, OTP, and new password are required"
             ELSE IF Len(newPassword) < 6
             THEN "Password must be at least 6 characters long"
             ELSE "",
             OTPFindOne(otps, userId, otp, "forgot_password"))

\* the rest of a verification handler: otpRecord.isUsed = true, the save,
\* then the user is read and the handler answers (auth.controller.ts 179-203,
\* 331-353, 452-476)
OTPSaved(slot) ==
    LET call == calls[slot]
        Answers(status, message, token) ==
            calls' = [calls EXCEPT ![slot].pc = "done", ![slot].status = status,
                                   ![slot].message = message,
                                   ![slot].token = token,
                                   ![slot].newPassword = <<>>]
        LoggedIn(result) ==
            IF result.ok
            THEN Answers(200, "2FA verification successful", result.token)
            ELSE Answers(400, result.message, "")
    IN  /\ call.pc = "found"
        /\ otps' = OTPSaveUsed(otps, call.otpRecord)
        /\ UNCHANGED <<scanVars, adminVars, otherVars, response>>
        /\ IF call.userId \notin UserIds
           THEN users' = users /\ Answers(404, "User not found", "")
           ELSE IF call.handler = "verifyLoginOTP"
           THEN /\ users' = users
                /\ LoggedIn(LoginUser(users, call.userId,
                                      users[call.userId].password, TRUE))
           ELSE IF call.handler = "verifyUserOTP"
           THEN /\ users' = [users EXCEPT ![call.userId].isVerified = TRUE]
                /\ Answers(200, "User verified successfully", "")
           ELSE /\ users' = [users EXCEPT ![call.userId].password = call.newPassword]
                /\ Answers(200, "Password reset successfully", "")

\* the time passes the expiresAt of a document
OTPExpires(id) ==
    /\ id \in 1..Len(otps)
    /\ ~otps[id].expired
    /\ otps' = [otps EXCEPT ![id].expired = TRUE]
    /\ UNCHANGED <<scanVars, adminVars, otherVars, users, calls, response>>

\* the emails and user ids a request carries ("" when the field is missing)
RequestUsers == UserIds \cup {""}

\* the one-time passwords a request carries
RequestOTPs == {BypassOTP, "123456", ""}

\* the passwords a request carries
RequestPasswords == {StrPassword, StrNewPassword, <<"a", "b", "c">>}

AuthInit == Init /\ apiKeySet

AuthNext ==
    \/ \E email \in RequestUsers \cup {"nobody"},
          password \in RequestPasswords \cup {<<>>} :
              Login(email, password)
    \/ \E userId \in RequestUsers : SendVerificationOTP(userId)
    \/ \E email \in RequestUsers : ForgotPassword(email)
    \/ \E userId \in RequestUsers, otp \in RequestOTPs : VerifyLoginOTP(userId, otp)
    \/ \E userId \in RequestUsers, otp \in RequestOTPs : VerifyUserOTP(userId, otp)
    \/ \E userId \in RequestUsers, otp \in RequestOTPs,
          newPassword \in {StrNewPassword, <<"a", "b", "c">>, <<>>} :
              ResetPassword(userId, otp, newPassword)
    \/ \E slot \in 1..MaxRequests : OTPSaved(slot)
    \/ \E id \in 1..MaxOTPs : OTPExpires(id)

AuthSpec == AuthInit /\ [][AuthNext]_vars

-----------------------------------------------------------------------------
(* createExhibitor, from its request with the given fields of req.body to   *)
(* its response: registerUser is awaited inside the step. generated is what *)
(* generateRandomPassword returns if it is called; roleFound is whether the *)
(* role is in RoleModel.                                                    *)

CreateExhibitor(firstName, lastName, email, phoneNumber, companyName, password, generated, roleFound) ==
    LET body == ExhibitorBody(firstName, lastName, email, phoneNumber,
                              companyName, password)
        Responds(status, message) ==
            /\ admin' = [NoExhibitorCall EXCEPT !.body = body,
                                                !.status = status,
                                                !.message = message]
            /\ exhibitors' = exhibitors
        Registered(data, result) ==
            /\ exhibitors' = result.users
            /\ admin' =
                  IF result.ok
                  THEN [NoExhibitorCall EXCEPT
                           !.body = body, !.registerUser = <<data>>,
                           !.status = 201,
                           !.message = <<"E", "x", "h", "i", "b", "i", "t", "o", "r", " ", "c", "r", "e", "a", "t", "e", "d", " ", "s", "u", "c", "c", "e", "s", "s", "f", "u", "l", "l", "y">>,
                           !.data = result.user,
                           !.temporaryPassword =
                               IF ~Truthy(body.password) THEN data.password
                               ELSE Undefined]
                  ELSE [NoExhibitorCall EXCEPT
                           !.body = body, !.registerUser = <<data>>,
                           !.status = 500, !.message = result.message]
        Registers(data) ==
            Registered(data, RegisterUser(data, exhibitors, roleFound))
        Validates(missingFields) ==
            IF Len(missingFields) # 0
            THEN Responds(400, <<"M", "i", "s", "s", "i", "n", "g", " ", "r", "e", "q", "u", "i", "r", "e", "d", " ", "f", "i", "e", "l", "d", "(", "s", ")", ":", " ">>
                                   \o JoinFields(missingFields))
            ELSE IF ~Truthy(body.email) /\ ~Truthy(body.phoneNumber)
            THEN Responds(400,
                     <<"A", "t", " ", "l", "e", "a", "s", "t", " ", "o", "n", "e", " ", "o", "f", " ", "e", "m", "a", "i", "l", " ", "o", "r", " ", "p", "h", "o", "n", "e", "N", "u", "m", "b", "e", "r", " ", "m", "u", "s", "t", " ", "b", "e", " ", "p", "r", "o", "v", "i", "d", "e", "d">>)
            ELSE IF Truthy(body.email) /\ ~EmailRegexTest(body.email.s)
            THEN Responds(400, <<"I", "n", "v", "a", "l", "i", "d", " ", "e", "m", "a", "i", "l", " ", "f", "o", "r", "m", "a", "t">>)
            ELSE IF Truthy(body.password) /\ Len(body.password.s) < 6
            THEN Responds(400,
                     <<"P", "a", "s", "s", "w", "o", "r", "d", " ", "m", "u", "s", "t", " ", "b", "e", " ", "a", "t", " ", "l", "e", "a", "s", "t", " ", "6", " ", "c", "h", "a", "r", "a", "c", "t", "e", "r", "s", " ", "l", "o", "n", "g">>)
            ELSE IF body.firstName = Undefined \/ body.lastName = Undefined
            THEN \* firstName.trim() or lastName.trim() throws
                 Responds(500,
                     <<"C", "a", "n", "n", "o", "t", " ", "r", "e", "a", "d", " ", "p", "r", "o", "p", "e", "r", "t", "i", "e", "s", " ", "o", "f", " ", "u", "n", "d", "e", "f", "i", "n", "e", "d", " ", "(", "r", "e", "a", "d", "i", "n", "g", " ", "'", "t", "r", "i", "m", "'", ")">>)
            ELSE Registers(RegisterUserDTO(body,
                               FinalPassword(body.password, generated)))
    IN  /\ UNCHANGED <<scanVars, authVars, otherVars>>
        /\ Validates(MissingFields(body))

\* the values of the fields of a request body; one valid email, so that a
\* second request with it finds the user of the first
RequestFirstNames == {Undefined, Str(<<>>), Str(<<"J", "a", "n", "e", " ">>)}

RequestLastNames == {Undefined, Str(<<"D", "o", "e">>)}

RequestEmails == {Undefined, Str(<<"J", "a", "n", "e", "@", "x", ".", "c", "o">>), Str(<<"j", "a", "n", "e">>)}

RequestPhones == {Undefined, Str(<<"+", "1", "2", "3">>)}

RequestCompanies == {Undefined, Str(<<"A", "c", "m", "e">>)}

RequestExhibitorPasswords ==
    {Undefined, Str(<<>>), Str(<<"a", "b", "c">>), Str(<<"s", "e", "c", "r", "e", "t", "1">>)}

AdminInit == Init /\ apiKeySet

AdminNext ==
    \E firstName \in RequestFirstNames, lastName \in RequestLastNames,
       email \in RequestEmails, phoneNumber \in RequestPhones,
       companyName \in RequestCompanies,
       password \in RequestExhibitorPasswords,
       generated \in GeneratedPasswords, roleFound \in BOOLEAN :
          CreateExhibitor(firstName, lastName, email, phoneNumber, companyName,
                          password, generated, roleFound)

AdminSpec == AdminInit /\ [][AdminNext]_vars

-----------------------------------------------------------------------------
(* batchScanBusinessCards: the loop awaits one scanBusinessCard call per     *)
(* image and pushes what it returns.                                         *)

\* batchScanBusinessCards(images) up to the first turn of its loop
BatchScanBusinessCards(images) ==
    /\ batch.status = "idle"
    /\ Ready
    /\ batch' = [status |-> "running", images |-> images, results |-> <<>>]
    /\ UNCHANGED <<scanVars, authVars, adminVars, rsvpVars, cronVars>>

\* const result = await scanBusinessCard(image), up to the return of the
\* scan or its await of the vision call
BatchScans ==
    /\ batch.status = "running"
    /\ Len(batch.results) < Len(batch.images)
    /\ ScanBusinessCard(batch.images[Len(batch.results) + 1])

\* results.push(result) of a loop that keeps the latest result only
BatchPushesLatest ==
    /\ batch.status = "running"
    /\ pc = "card_done"
    /\ batch' = [batch EXCEPT !.results = [i \in 1..(Len(@) + 1) |-> cardResult]]
    /\ pc' = "idle"
    /\ image' = <<>>
    /\ cardResult' = NoCardResult
    /\ visionCalls' = 0
    /\ UNCHANGED <<qrText, qrResult, crawlerCalls, apiKeySet, authVars, adminVars,
                   rsvpVars, cronVars>>

\* results.push(result), or the rejection of the awaited scan leaves the loop
BatchPushes ==
    /\ batch.status = "running"
    /\ pc = "card_done"
    /\ batch' = IF cardResult.outcome = "rejected"
                THEN [batch EXCEPT !.status = "rejected"]
                ELSE [batch EXCEPT !.results = Append(@, cardResult)]
    /\ pc' = "idle"
    /\ image' = <<>>
    /\ cardResult' = NoCardResult
    /\ visionCalls' = 0
    /\ UNCHANGED <<qrText, qrResult, crawlerCalls, apiKeySet, authVars, adminVars,
                   rsvpVars, cronVars>>

\* return results
BatchReturns ==
    /\ batch.status = "running"
    /\ Ready
    /\ Len(batch.results) = Len(batch.images)
    /\ batch' = [batch EXCEPT !.status = "done"]
    /\ UNCHANGED <<scanVars, authVars, adminVars, rsvpVars, cronVars>>

\* the caller takes the results, or the rejection, of the batch
BatchTaken ==
    /\ batch.status \in {"done", "rejected"}
    /\ batch' = NoBatch
    /\ UNCHANGED <<scanVars, authVars, adminVars, rsvpVars, cronVars>>

\* the sequences of at most n elements of S
SeqsUpTo(S, n) == UNION {[1..m -> S] : m \in 0..n}

BatchNext ==
    \/ \E images \in SeqsUpTo(BatchImages, MaxImages) : BatchScanBusinessCards(images)
    \/ BatchScans
    \/ \E reply \in BatchReplies : VisionSettles(reply)
    \/ BatchPushes
    \/ BatchReturns
    \/ BatchTaken

BatchSpec == Init /\ [][BatchNext]_vars

-----------------------------------------------------------------------------
(* createRsvp and cancelRsvp: every await of a handler ends a step, so that  *)
(* the steps of the requests in progress interleave.                         *)

\* the response of a request, kept until the client has taken it
RsvpResponse(handler, status, message) ==
    [NoRsvpCall EXCEPT !.handler = handler, !.pc = "responded",
                       !.status = status, !.message = message]

\* RsvpModel.create({ eventId, userId, eventLicenseKey, ..., isDeleted: false })
RsvpModelCreate(docs, userId, key) ==
    Append(docs, [userId |-> userId, eventLicenseKey |-> key,
                  isActive |-> TRUE, isDeleted |-> FALSE])

\* the requests to createRsvp that may still create a document
CreatingRsvp ==
    {slot \in 1..MaxRsvpRequests :
        /\ rsvpCalls[slot].handler = "createRsvp"
        /\ rsvpCalls[slot].pc \in {"checked", "free"}}

\* createRsvp from the arrival of the request: EventModel.findOne and the
\* checks of the license key it found
CreateRsvp(slot, userId, rsvpLicenseKey) ==
    /\ rsvpCalls[slot].pc = "idle"
    /\ Len(rsvps) + Cardinality(CreatingRsvp) < MaxRsvps
    /\ rsvpCalls' = [rsvpCalls EXCEPT ![slot] =
          IF rsvpLicenseKey = ""
          THEN RsvpResponse("createRsvp", 400, "License key is required")
          ELSE IF rsvpLicenseKey \notin DOMAIN licenseKeys
          THEN RsvpResponse("createRsvp", 404, "Invalid license key")
          ELSE IF ~licenseKeys[rsvpLicenseKey].isActive
          THEN RsvpResponse("createRsvp", 400, "License key is inactive")
          ELSE IF licenseKeys[rsvpLicenseKey].expired
          THEN RsvpResponse("createRsvp", 400, "License key has expired")
          ELSE IF licenseKeys[rsvpLicenseKey].maxActivations
                    - licenseKeys[rsvpLicenseKey].usedCount <= 0
          THEN RsvpResponse("createRsvp", 400,
                            "License key has reached maximum activations")
          ELSE [NoRsvpCall EXCEPT !.handler = "createRsvp", !.pc = "checked",
                                  !.userId = userId, !.key = rsvpLicenseKey]]
    /\ UNCHANGED <<scanVars, authVars, adminVars, batchVars, cronVars,
                   licenseKeys, rsvps>>

\* const existingRsvp = await RsvpModel.findOne(...) and its check
RsvpFindsExisting(slot) ==
    /\ rsvpCalls[slot].handler = "createRsvp"
    /\ rsvpCalls[slot].pc = "checked"
    /\ rsvpCalls' = [rsvpCalls EXCEPT ![slot] =
          IF HasRsvp(rsvps, rsvpCalls[slot].userId)
          THEN RsvpResponse("createRsvp", 400,
                            "You have already registered for this event")
          ELSE [@ EXCEPT !.pc = "free"]]
    /\ UNCHANGED <<scanVars, authVars, adminVars, batchVars, cronVars,
                   licenseKeys, rsvps>>

\* the assignment of the user to the team manager (it changes exhibitorId of
\* the user only) and const rsvp = await RsvpModel.create(...)
RsvpCreates(slot) ==
    /\ rsvpCalls[slot].handler = "createRsvp"
    /\ rsvpCalls[slot].pc = "free"
    /\ rsvps' = RsvpModelCreate(rsvps, rsvpCalls[slot].userId, rsvpCalls[slot].key)
    /\ rsvpCalls' = [rsvpCalls EXCEPT ![slot].pc = "created",
                                      ![slot].rsvpId = Len(rsvps) + 1]
    /\ UNCHANGED <<scanVars, authVars, adminVars, batchVars, cronVars, licenseKeys>>

\* await EventModel.updateOne(..., { $inc: usedCount 1 }), the reading of the
\* populated document and the response 201
RsvpCounts(slot) ==
    /\ rsvpCalls[slot].handler = "createRsvp"
    /\ rsvpCalls[slot].pc = "created"
    /\ licenseKeys' = IncUsedCount(licenseKeys, rsvpCalls[slot].key, 1)
    /\ rsvpCalls' = [rsvpCalls EXCEPT ![slot] =
          [RsvpResponse("createRsvp", 201, "Successfully registered for the event")
              EXCEPT !.rsvpId = rsvpCalls[slot].rsvpId]]
    /\ UNCHANGED <<scanVars, authVars, adminVars, batchVars, cronVars, rsvps>>

\* cancelRsvp from the arrival of the request: RsvpModel.findOne and its check
CancelRsvp(slot, userId, rsvpId) ==
    /\ rsvpCalls[slot].pc = "idle"
    /\ rsvpCalls' = [rsvpCalls EXCEPT ![slot] =
          IF ~FindsRsvp(rsvps, rsvpId, userId)
          THEN RsvpResponse("cancelRsvp", 404, "RSVP not found")
          ELSE [NoRsvpCall EXCEPT !.handler = "cancelRsvp", !.pc = "found",
                                  !.userId = userId, !.rsvpId = rsvpId,
                                  !.key = rsvps[rsvpId].eventLicenseKey]]
    /\ UNCHANGED <<scanVars, authVars, adminVars, batchVars, cronVars,
                   licenseKeys, rsvps>>

\* rsvp.isDeleted = true; rsvp.isActive = false; await rsvp.save()
RsvpSaves(slot) ==
    /\ rsvpCalls[slot].handler = "cancelRsvp"
    /\ rsvpCalls[slot].pc = "found"
    /\ rsvps' = [rsvps EXCEPT ![rsvpCalls[slot].rsvpId].isDeleted = TRUE,
                              ![rsvpCalls[slot].rsvpId].isActive = FALSE]
    /\ rsvpCalls' = [rsvpCalls EXCEPT ![slot].pc = "saved"]
    /\ UNCHANGED <<scanVars, authVars, adminVars, batchVars, cronVars, licenseKeys>>

\* await EventModel.updateOne(..., { $inc: usedCount -1 }) and the response 200
RsvpUncounts(slot) ==
    /\ rsvpCalls[slot].handler = "cancelRsvp"
    /\ rsvpCalls[slot].pc = "saved"
    /\ licenseKeys' = IncUsedCount(licenseKeys, rsvpCalls[slot].key, 0 - 1)
    /\ rsvpCalls' = [rsvpCalls EXCEPT ![slot] =
          [RsvpResponse("cancelRsvp", 200, "RSVP cancelled successfully")
              EXCEPT !.rsvpId = rsvpCalls[slot].rsvpId]]
    /\ UNCHANGED <<scanVars, authVars, adminVars, batchVars, cronVars, rsvps>>

\* the client takes the response
RsvpResponseTaken(slot) ==
    /\ rsvpCalls[slot].pc = "responded"
    /\ rsvpCalls' = [rsvpCalls EXCEPT ![slot] = NoRsvpCall]
    /\ UNCHANGED <<scanVars, authVars, adminVars, batchVars, cronVars,
                   licenseKeys, rsvps>>

\* req.body.rsvpLicenseKey of the requests
RequestLicenseKeys == LicenseKeyIds \cup {"", "NONE"}

RsvpInit == Init /\ apiKeySet

RsvpNext ==
    \E slot \in 1..MaxRsvpRequests :
        \/ \E userId \in UserIds : \E rsvpLicenseKey \in RequestLicenseKeys :
              CreateRsvp(slot, userId, rsvpLicenseKey)
        \/ RsvpFindsExisting(slot)
        \/ RsvpCreates(slot)
        \/ RsvpCounts(slot)
        \/ \E userId \in UserIds : \E rsvpId \in 1..MaxRsvps :
              CancelRsvp(slot, userId, rsvpId)
        \/ RsvpSaves(slot)
        \/ RsvpUncounts(slot)
        \/ RsvpResponseTaken(slot)

RsvpSpec == RsvpInit /\ [][RsvpNext]_vars

-----------------------------------------------------------------------------
(* The meeting reminders: a pass of the scheduled job or of the on-demand    *)
(* check reads the meetings once and then sends and saves meeting by         *)
(* meeting; every await of a pass ends a step.                               *)

\* await MeetingModel.find(...) with its populate calls, and the loop up to
\* its first await
RunStarts(runner) ==
    LET found == FindMeetings(meetings, MeetingOrder, 1)
    IN  /\ runs[runner].pc = "idle"
        /\ runs' = [runs EXCEPT ![runner] =
              NextToSend(meetings, [NoRun EXCEPT !.found = found,
                                                 !.total = Len(found)])]
        /\ UNCHANGED <<scanVars, authVars, adminVars, batchVars, rsvpVars,
                       meetings, delivered>>

\* await sendNotificationToMultipleDevices(...) settles, and the pass goes on
\* to its next await: outcome is "delivered" for successCount > 0, "none" for
\* successCount 0 and "throw" for a rejection, which the scheduled job catches
\* per meeting and which ends the on-demand check
SendSettles(runner, outcome) ==
    LET run == runs[runner]
    IN  /\ run.pc = "sending"
        /\ delivered' = IF outcome = "delivered"
                        THEN [delivered EXCEPT ![Head(run.found)] = @ + 1]
                        ELSE delivered
        /\ runs' = [runs EXCEPT ![runner] =
              IF outcome = "delivered" THEN [run EXCEPT !.pc = "saving"]
              ELSE IF outcome = "throw" /\ runner = "check"
                  THEN [run EXCEPT !.pc = "done", !.found = <<>>]
              ELSE NextToSend(meetings, [run EXCEPT !.found = Tail(@),
                                                    !.failed = @ + 1])]
        /\ UNCHANGED <<scanVars, authVars, adminVars, batchVars, rsvpVars, meetings>>

\* meeting.reminderSent = true; await meeting.save(), and the pass goes on to
\* its next await
MeetingSaves(runner) ==
    LET run == runs[runner]
    IN  /\ run.pc = "saving"
        /\ meetings' = [meetings EXCEPT ![Head(run.found)].reminderSent = TRUE]
        /\ runs' = [runs EXCEPT ![runner] =
              NextToSend(meetings, [run EXCEPT !.found = Tail(@),
                                               !.sent = @ + 1])]
        /\ UNCHANGED <<scanVars, authVars, adminVars, batchVars, rsvpVars, delivered>>

\* the pass has ended
RunEnds(runner) ==
    /\ runs[runner].pc = "done"
    /\ runs' = [runs EXCEPT ![runner] = NoRun]
    /\ UNCHANGED <<scanVars, authVars, adminVars, batchVars, rsvpVars,
                   meetings, delivered>>

\* how a send settles
SendOutcomes == {"delivered", "none", "throw"}

CronInit == Init /\ apiKeySet

CronNext ==
    \E runner \in Runners :
        \/ RunStarts(runner)
        \/ \E outcome \in SendOutcomes : SendSettles(runner, outcome)
        \/ MeetingSaves(runner)
        \/ RunEnds(runner)

CronSpec == CronInit /\ [][CronNext]_vars

-----------------------------------------------------------------------------
(* Properties of processQRCode and scanBusinessCard *)

\* processQRCode has returned to its caller
QRDone == pc = "qr_done"

\* scanBusinessCard has returned to its caller
CardDone == pc = "card_done"

\* t is s without its leading and trailing white space
IsTrimOf(t, s) ==
    /\ t # <<>> => (t[1] \notin WhiteSpace /\ t[Len(t)] \notin WhiteSpace)
    /\ \E a \in 0..(Len(s) - Len(t)) :
          /\ SubSeq(s, a + 1, a + Len(t)) = t
          /\ \A i \in (1..a) \cup ((a + Len(t) + 1)..Len(s)) : s[i] \in WhiteSpace

\* s is empty or holds white space only
IsBlank(s) == \A i \in 1..Len(s) : s[i] \in WhiteSpace

\* the type of the first test that t passes, in the order entry code, mailto
\* prefix, tel prefix, http/https URL, vCard, and plaintext when none does
FirstMatch(t) ==
    IF IsEntryCode(t) THEN "entry_code"
    ELSE IF StartsWith(ToLower(t), StrMailto) THEN "mailto"
    ELSE IF StartsWith(ToLower(t), StrTel) THEN "tel"
    ELSE IF IsURL(t) THEN "url"
    ELSE IF IsVCard(t) THEN "vcard"
    ELSE "plaintext"

\* C1 as stated: the result of every payload that is not blank carries the
\* type of the first test the trimmed payload passes
TypeOfEveryResultIsFirstMatch ==
    (QRDone /\ ~IsBlank(qrText)) => qrResult.type = FirstMatch(Trim(qrText))

\* C1: processQRCode takes the branch of the first test the trimmed payload
\* passes: every successful result carries that type, the crawler is awaited
\* only for a url payload, and a failure comes from the vCard branch alone,
\* typed plaintext with the error of the vCard parser
TypeOfSuccessIsFirstMatch ==
    /\ pc = "qr_await" => FirstMatch(Trim(qrText)) = "url"
    /\ (QRDone /\ ~IsBlank(qrText)) =>
          IF qrResult.success
          THEN qrResult.type = FirstMatch(Trim(qrText))
          ELSE /\ FirstMatch(Trim(qrText)) = "vcard"
               /\ qrResult.type = "plaintext"
               /\ qrResult.error = "Failed to parse vCard data"

\* C1: an upper-case MAILTO: payload has returned as a mailto result
UpperCaseMailtoReturned ==
    /\ QRDone
    /\ qrResult.success
    /\ qrResult.type = "mailto"
    /\ ~StartsWith(Trim(qrText), StrMailto)

\* the shape of an entry code: 3 to 30 letters, digits, "_" and "-", and none
\* of ".", "@" and "/"
EntryCodeShape(t) ==
    /\ Len(t) >= 3
    /\ Len(t) <= 30
    /\ \A i \in 1..Len(t) : t[i] \in AlNum \cup {"_", "-"}
    /\ \A i \in 1..Len(t) : t[i] \notin {".", "@", "/"}

\* C2: a payload whose trimmed form has the shape of an entry code returns
\* success with type entry_code, entryCode the trimmed payload, confidence 1.0
EntryCodeIsTrimmedPayload ==
    (QRDone /\ EntryCodeShape(Trim(qrText))) =>
        /\ qrResult.success
        /\ qrResult.type = "entry_code"
        /\ qrResult.entryCode.k = "str"
        /\ IsTrimOf(qrResult.entryCode.s, qrText)
        /\ qrResult.confidence = ConfOne

\* C2: an entry code passed with white space around it has returned
PaddedEntryCodeReturned ==
    /\ QRDone
    /\ qrResult.type = "entry_code"
    /\ qrResult.entryCode = Str(StrCode)
    /\ Len(qrText) > Len(StrCode)

\* C3: a returned result has data and no error when success is true, and an
\* error and no data when success is false
ExactlyOneOfDataAndError ==
    /\ QRDone =>
          /\ qrResult.hasData = qrResult.success
          /\ qrResult.hasError = ~qrResult.success
    /\ CardDone =>
          /\ cardResult.hasData = cardResult.success
          /\ cardResult.hasError = ~cardResult.success

\* C3: processQRCode has returned the failure of a vCard that does not parse
VCardFailureReturned ==
    /\ QRDone
    /\ ~qrResult.success
    /\ qrResult.hasError
    /\ IsVCard(Trim(qrText))

\* the types whose result carries details
DetailTypes == {"mailto", "tel", "url", "vcard", "plaintext"}

\* C4 as stated: on every successful mailto, tel, url, vcard and plaintext
\* result each of the ten required keys is in details with a string value
RequiredKeysAreStrings ==
    (QRDone /\ qrResult.success /\ qrResult.type \in DetailTypes) =>
        \A key \in RequiredKeys : qrResult.details[key].k = "str"

\* C5: the details of a processQRCode result never hold the key uniqueCode
DetailsWithoutUniqueCode ==
    (QRDone /\ qrResult.hasDetails) =>
        qrResult.details["uniqueCode"].k = "absent"

\* C5: a url result whose crawler data held a unique code has returned
CrawlerCodeReturned ==
    /\ QRDone
    /\ qrResult.type = "url"
    /\ qrResult.hasDetails
    /\ qrResult.entryCode = Str(StrCode)

\* the crawler request fails or answers without success and data
CrawlerFails(reply) == reply.kind # "data"

\* C6: when the crawler request of a url payload fails or answers without
\* success and data, processQRCode still returns success with type url and
\* details.website the payload URL
CrawlerFailureStillSucceeds ==
    [][\A reply \in CrawlerReplies :
          (CrawlerFails(reply) /\ CrawlerSettles(reply)) =>
              /\ qrResult'.outcome = "returned"
              /\ qrResult'.success
              /\ qrResult'.type = "url"
              /\ qrResult'.details["website"].k = "str"
              /\ IsTrimOf(qrResult'.details["website"].s, qrText)]_vars

\* C6: a url result whose only field is the payload URL as website has returned
WebsiteOnlyReturned ==
    /\ QRDone
    /\ qrResult.success
    /\ qrResult.type = "url"
    /\ qrResult.details["website"] = Str(Trim(qrText))
    /\ FieldCount(qrResult.details) = 1

\* C7: processQRCode and scanBusinessCard end by returning a result record,
\* and a record with success false carries an error message that is not empty
AlwaysReturnsARecord ==
    /\ QRDone =>
          /\ qrResult.outcome = "returned"
          /\ ~qrResult.success => (qrResult.hasError /\ qrResult.error # "")
    /\ CardDone =>
          /\ cardResult.outcome = "returned"
          /\ ~cardResult.success => (cardResult.hasError /\ cardResult.error # "")

\* C7: the exception of the vCard parser has come back as a failure record
ParserExceptionReturned ==
    /\ QRDone
    /\ qrResult.outcome = "returned"
    /\ qrResult.error = "Failed to parse vCard data"

\* C8: an empty or blank payload returns success false, type plaintext and the
\* error "QR code text is empty", and no crawler request is made for it
BlankPayloadFails ==
    IsBlank(qrText) =>
        /\ pc # "qr_await"
        /\ crawlerCalls = <<>>
        /\ QRDone =>
              /\ ~qrResult.success
              /\ qrResult.type = "plaintext"
              /\ qrResult.hasError
              /\ qrResult.error = "QR code text is empty"

\* C8: a payload of white space only has returned
BlankPayloadReturned ==
    /\ QRDone
    /\ qrText # <<>>
    /\ IsBlank(qrText)
    /\ qrResult.error = "QR code text is empty"

\* a confidence is between 0 and 1 and a whole number of hundredths
TwoDecimals(confidence) ==
    /\ confidence >= 0
    /\ confidence <= Ratio(1, 1)
    /\ confidence % Ratio(1, 100) = 0

\* C9: the confidence of every successful result of processQRCode and of
\* scanBusinessCard is in [0, 1] and has at most two decimal places
ConfidenceHasTwoDecimals ==
    /\ (QRDone /\ qrResult.success) => TwoDecimals(qrResult.confidence)
    /\ (CardDone /\ cardResult.success) => TwoDecimals(cardResult.confidence)

\* C9: a plaintext result with one field of three, 0.33, has returned
RoundedThirdReturned ==
    /\ QRDone
    /\ qrResult.success
    /\ qrResult.type = "plaintext"
    /\ FieldCount(qrResult.details) = 1
    /\ qrResult.confidence = 33 * Ratio(1, 100)

\* C10 as stated: rawData of every successful result is the payload the caller
\* passed, unmodified
RawDataIsThePayload ==
    (QRDone /\ qrResult.success) => qrResult.rawData = qrText

\* C10: rawData of every successful result is the payload the caller passed
\* without its leading and trailing white space
RawDataIsTheTrimmedPayload ==
    (QRDone /\ qrResult.success) => IsTrimOf(qrResult.rawData, qrText)

\* C10: a payload passed with white space around it has returned with success
PaddedPayloadReturned ==
    /\ QRDone
    /\ qrResult.success
    /\ qrResult.rawData # qrText
    /\ qrResult.type = "plaintext"

\* the extractor's result as the value of entryCode: the code, or ''
CodeValue(r) == IF r.found THEN Str(r.s) ELSE Str(<<>>)

\* the unique-code extractor finds a code in the text
HasCode(t) == ExtractUniqueCode(t).found

MailtoAddress(trimmedText) ==
    Trim(BeforeFirst(SubSeq(trimmedText, Len(StrMailto) + 1, Len(trimmedText)), "?"))

\* C12: for a payload that starts with mailto: in any letter case,
\* processQRCode returns type mailto and details.email is the URL-decoded
\* text between the prefix and the first "?" (whenever that text decodes)
MailtoEmailIsDecodedAddress ==
    (QRDone /\ StartsWith(ToLower(Trim(qrText)), StrMailto)) =>
        /\ qrResult.success
        /\ qrResult.type = "mailto"
        /\ LET EmailIs(decoded) ==
                   decoded.ok => qrResult.details["email"] = Str(decoded.s)
           IN  EmailIs(DecodeURIComponent(MailtoAddress(Trim(qrText))))

Occurrences(text, p) ==
    {i \in 0..(Len(text) - Len(p)) : SubSeq(text, i + 1, i + Len(p)) = p}

\* "@", "http" or "www" lies wholly within the 10 characters before and the
\* 10 characters after the occurrence of token at position i
MarkerAround(text, token, i) ==
    \E marker \in {<<"@">>, StrHttpWord, StrWww} :
        \E j \in Occurrences(text, marker) :
            j >= i - 10 /\ j + Len(marker) <= i + Len(token) + 10

\* all of the token's characters are digits
PurelyNumeric(token) == \A i \in 1..Len(token) : token[i] \in Digits

\* C14 as stated: the code extractUniqueCode returns for a plain-text payload
\* is never purely numeric and has no occurrence within 10 characters of "@",
\* "http" or "www", by whichever of the two scans it was found
UniqueCodeIsFiltered ==
    (QRDone /\ qrResult.success /\ qrResult.type = "plaintext"
            /\ Truthy(qrResult.entryCode)) =>
        /\ ~PurelyNumeric(qrResult.entryCode.s)
        /\ \A i \in Occurrences(Trim(qrText), qrResult.entryCode.s) :
              ~MarkerAround(Trim(qrText), qrResult.entryCode.s, i)

\* C14: the code extractUniqueCode returns for a plain-text payload is the
\* capture of the key-value pattern, unfiltered, when that pattern matches;
\* otherwise it is a standalone token that is not purely numeric, has at most
\* 10 digits, and whose first occurrence has no "@", "http" or "www" within
\* 10 characters
StandaloneCodeIsFiltered ==
    (QRDone /\ qrResult.success /\ qrResult.type = "plaintext"
            /\ Truthy(qrResult.entryCode)) =>
        LET Filtered(text, code, kv) ==
                IF kv.found THEN code = kv.s
                ELSE /\ ~PurelyNumeric(code)
                     /\ DigitCount(code) <= 10
                     /\ Occurrences(text, code) # {}
                     /\ ~MarkerAround(text, code, SetMin(Occurrences(text, code)))
        IN  Filtered(Trim(qrText), qrResult.entryCode.s,
                     KeyValueCode(Trim(qrText), 1))

\* C14: a plain-text result has returned with a code found by the standalone
\* scan, in a payload the key-value patterns do not match
StandaloneCodeReturned ==
    /\ QRDone
    /\ qrResult.success
    /\ qrResult.type = "plaintext"
    /\ Truthy(qrResult.entryCode)
    /\ ~KeyValueCode(Trim(qrText), 1).found

\* C15: normalizeContactData is idempotent: applied to the details it has
\* produced, it gives a record with the same keys and values, and neither
\* holds the key uniqueCode
NormalizeIsIdempotent ==
    (QRDone /\ qrResult.hasDetails) =>
        /\ NormalizeContactData(qrResult.details) = qrResult.details
        /\ qrResult.details["uniqueCode"] = Absent
        /\ NormalizeContactData(qrResult.details)["uniqueCode"] = Absent

\* C15: details have returned that were normalized from a parser's record
\* which held a uniqueCode and an email whose value is undefined
UndefinedEmailNormalized ==
    /\ QRDone
    /\ qrResult.hasDetails
    /\ qrResult.type = "plaintext"
    /\ Truthy(qrResult.entryCode)
    /\ qrResult.details["email"] = Undefined

\* the image is a data:image URL of type jpeg, jpg, png or webp in base64, or
\* a bare base64 string
Base64Shaped(imageData) ==
    \/ \E prefix \in DataUrlPrefixes :
          /\ Len(imageData) >= Len(prefix)
          /\ SubSeq(imageData, 1, Len(prefix)) = prefix
    \/ /\ imageData # <<>>
       /\ \A i \in 1..Len(imageData) : imageData[i] \in AlNum \cup {"+", "/", "="}

\* scanBusinessCard has been called and has not yet been taken by the caller
CardCalled == pc \in {"card_await", "card_done"}

\* C16: scanBusinessCard checks the credential, then the image format, then
\* calls the vision model: without OPENAI_API_KEY it returns the
\* credential-missing failure, with the key and an image that is not
\* base64-shaped it returns the format failure, and in both cases no vision
\* call is made
ChecksComeBeforeVisionCall ==
    /\ (CardCalled /\ ~apiKeySet) =>
          /\ pc = "card_done"
          /\ cardResult.outcome = "returned"
          /\ ~cardResult.success
          /\ cardResult.error =
                "OpenAI API key not configured. Please set OPENAI_API_KEY in environment variables."
          /\ visionCalls = 0
    /\ (CardCalled /\ apiKeySet /\ ~Base64Shaped(image)) =>
          /\ pc = "card_done"
          /\ cardResult.outcome = "returned"
          /\ ~cardResult.success
          /\ cardResult.error =
                "Invalid image format. Please provide a valid base64 encoded image."
          /\ visionCalls = 0
    /\ visionCalls > 0 => (apiKeySet /\ Base64Shaped(image))

\* C16: scanBusinessCard has returned the credential-missing failure for an
\* image that would also fail the format check
KeyCheckedBeforeImage ==
    /\ pc = "card_done"
    /\ ~apiKeySet
    /\ ~Base64Shaped(image)
    /\ image # <<>>
    /\ cardResult.error =
          "OpenAI API key not configured. Please set OPENAI_API_KEY in environment variables."
    /\ visionCalls = 0

\* the requests of handlers of one purpose that answered 200 for userId
Verified(userId, purpose) ==
    {slot \in 1..MaxRequests :
        /\ calls[slot].pc = "done"
        /\ calls[slot].status = 200
        /\ calls[slot].userId = userId
        /\ PurposeOf(calls[slot].handler) = purpose}

\* the documents created for userId and purpose
Issued(userId, purpose) ==
    {id \in 1..Len(otps) :
        otps[id].userId = userId /\ otps[id].purpose = purpose}

\* C17: for every user and purpose, the verification requests that succeeded
\* are never more than the one-time passwords issued, and no document backs
\* two successful requests
EachOTPVerifiesOnce ==
    /\ \A userId \in UserIds, purpose \in {"login", "verification", "forgot_password"} :
          Cardinality(Verified(userId, purpose)) <= Cardinality(Issued(userId, purpose))
    /\ \A s1, s2 \in 1..MaxRequests :
          /\ s1 # s2
          /\ calls[s1].pc = "done" /\ calls[s1].status = 200
          /\ calls[s2].pc = "done" /\ calls[s2].status = 200
          => calls[s1].otpRecord.id # calls[s2].otpRecord.id

\* a login of a user with twoFactorEnabled that carries the user's password
\* answers 200 with requires2FA and no token, and has created an unused,
\* unexpired login document for the user
TwoFactorLoginAsksForOTP ==
    \A email \in UserIds :
        /\ users[email].twoFactorEnabled
        /\ Login(email, users[email].password)
        => /\ response'.handler = "login"
           /\ response'.userId = email
           /\ response'.status = 200
           /\ response'.requires2FA
           /\ response'.token = ""
           /\ Len(otps') = Len(otps) + 1
           /\ otps'[Len(otps')].userId = email
           /\ otps'[Len(otps')].purpose = "login"
           /\ ~otps'[Len(otps')].isUsed
           /\ ~otps'[Len(otps')].expired

\* the JSON web tokens in the responses: one in a response of login is of a
\* user without twoFactorEnabled, and one in the response of a verification
\* request is of the user of the request, sent by verifyLoginOTP after findOne
\* gave it a login document of that user that was unused and unexpired
TokensComeFromMatchedOTP ==
    /\ response.token # ""
       => /\ response.handler = "login"
          /\ response.token = response.userId
          /\ ~users[response.token].twoFactorEnabled
    /\ \A slot \in 1..MaxRequests :
          calls[slot].token # ""
          => /\ calls[slot].handler = "verifyLoginOTP"
             /\ calls[slot].pc = "done"
             /\ calls[slot].token = calls[slot].userId
             /\ calls[slot].otpRecord.userId = calls[slot].userId
             /\ calls[slot].otpRecord.purpose = "login"
             /\ ~calls[slot].otpRecord.isUsed
             /\ ~calls[slot].otpRecord.expired
             /\ otps[calls[slot].otpRecord.id].isUsed

-----------------------------------------------------------------------------
(* Properties of createExhibitor *)

\* createExhibitor has answered a request
ExhibitorAnswered == admin.status # 0

\* the request body lacks firstName or lastName (absent or empty)
RequiredFieldMissing(body) ==
    \/ body.firstName = Undefined \/ body.firstName = Str(<<>>)
    \/ body.lastName = Undefined \/ body.lastName = Str(<<>>)

\* a call whose body lacks a required field: its answer, and the collection
\* before and after it
MissingFieldStep ==
    RequiredFieldMissing(admin'.body)
    => /\ admin'.status = 400
       /\ Includes(admin'.message, <<"M", "i", "s", "s", "i", "n", "g", " ", "r", "e", "q", "u", "i", "r", "e", "d", " ", "f", "i", "e", "l", "d">>)
       /\ admin'.registerUser = <<>>
       /\ admin'.next = 0
       /\ exhibitors' = exhibitors

\* C19: createExhibitor with firstName or lastName missing responds 400 with
\* a message that contains "Missing required field", calls neither
\* registerUser nor next, and no user is created
MissingFieldsAreRejected == [][MissingFieldStep]_vars

\* a request with firstName and without lastName was answered 400 after an
\* earlier request had created an exhibitor
MissingLastNameAnswered ==
    /\ admin.status = 400
    /\ Truthy(admin.body.firstName)
    /\ admin.body.lastName = Undefined
    /\ Len(exhibitors) = 1

\* the body passes the validations of createExhibitor: both names, an email
\* or a phone number, an email of the accepted form, a password of 6
\* characters or none
ValidFields(body) ==
    /\ ~RequiredFieldMissing(body)
    /\ Truthy(body.email) \/ Truthy(body.phoneNumber)
    /\ Truthy(body.email) => EmailRegexTest(body.email.s)
    /\ Truthy(body.password) => Len(body.password.s) >= 6

\* the request has no password (absent or empty)
NoPassword(body) == ~Truthy(body.password)

\* call has called registerUser once, with roleName EXHIBITOR and a password
\* that generateRandomPassword made
RegistersWithGeneratedPassword(call) ==
    /\ Len(call.registerUser) = 1
    /\ call.registerUser[1].roleName = "EXHIBITOR"
    /\ call.registerUser[1].password.k = "str"
    /\ call.registerUser[1].password.s \in GeneratedPasswords
    /\ Len(call.registerUser[1].password.s) = 12
    /\ \A i \in 1..12 : call.registerUser[1].password.s[i] \in PasswordChars

\* C20 as stated: with valid fields and no password createExhibitor calls
\* registerUser once with roleName EXHIBITOR and a generated password,
\* responds 201 and returns that password as temporaryPassword; with a
\* password in the request the response has no temporaryPassword
ValidExhibitorGets201 ==
    /\ ExhibitorAnswered /\ ValidFields(admin.body) /\ NoPassword(admin.body)
       => /\ RegistersWithGeneratedPassword(admin)
          /\ admin.status = 201
          /\ admin.temporaryPassword = admin.registerUser[1].password
    /\ Truthy(admin.body.password) => admin.temporaryPassword = Undefined

\* a call of createExhibitor with valid fields and no password: 201 with the
\* generated password when registerUser has created the user, 500 without it
\* when registerUser has rejected
GeneratedPasswordStep ==
    /\ ValidFields(admin'.body) /\ NoPassword(admin'.body)
       => /\ RegistersWithGeneratedPassword(admin')
          /\ admin'.next = 0
          /\ IF exhibitors' # exhibitors
             THEN /\ Len(exhibitors') = Len(exhibitors) + 1
                  /\ exhibitors'[Len(exhibitors')].email = admin'.registerUser[1].email
                  /\ admin'.status = 201
                  /\ admin'.temporaryPassword = admin'.registerUser[1].password
             ELSE /\ admin'.status = 500
                  /\ admin'.temporaryPassword = Undefined
    /\ Truthy(admin'.body.password) => admin'.temporaryPassword = Undefined

\* C20: with valid fields and no password createExhibitor calls registerUser
\* once with roleName EXHIBITOR and a generated non-empty password; when
\* registerUser resolves it responds 201 and returns that password as
\* temporaryPassword, when registerUser rejects it responds 500 without one;
\* with a password in the request no response has a temporaryPassword
GeneratedPasswordIsReturned == [][GeneratedPasswordStep]_vars

\* a request without password was answered 201 with a generated password
TemporaryPasswordReturned ==
    /\ admin.status = 201
    /\ admin.body.password = Undefined
    /\ admin.temporaryPassword.k = "str"
    /\ admin.temporaryPassword.s \in GeneratedPasswords
    /\ Len(exhibitors) = 1

-----------------------------------------------------------------------------
(* Properties of the external requests of processQRCode and scanBusinessCard *)

\* the requests the call in progress has issued: at most one to the crawler,
\* for the trimmed payload and only if it is classified url, at most one to
\* the vision model, and none to the crawler by a scanBusinessCard call
AtMostOneRequest ==
    /\ Len(crawlerCalls) <= 1
    /\ crawlerCalls # <<>>
       => /\ FirstMatch(Trim(qrText)) = "url"
          /\ crawlerCalls = <<Trim(qrText)>>
          /\ pc \in {"qr_await", "qr_done"}
    /\ visionCalls <= 1
    /\ visionCalls = 1 => pc \in {"card_await", "card_done"}

\* once its request has settled, the call returns without another request
NoRequestAfterSettling ==
    /\ pc = "qr_await" => (pc' = "qr_done" /\ crawlerCalls' = crawlerCalls)
    /\ pc = "card_await" => (pc' = "card_done" /\ visionCalls' = visionCalls)
    /\ pc \in {"qr_done", "card_done"}
       => (crawlerCalls' = <<>> /\ visionCalls' = 0)

\* C21: within one call processQRCode issues at most one crawler request, and
\* only for a payload classified url, and scanBusinessCard issues at most one
\* vision request; after a request has failed the call returns without
\* issuing it again
RequestsAreIssuedOnce ==
    /\ []AtMostOneRequest
    /\ [][NoRequestAfterSettling]_vars

\* scanBusinessCard has returned the failure of a rate-limited vision request,
\* having issued one request
RateLimitedScanReturned ==
    /\ pc = "card_done"
    /\ visionCalls = 1
    /\ ~cardResult.success
    /\ cardResult.error = "OpenAI API rate limit exceeded. Please try again later."

-----------------------------------------------------------------------------
(* Properties of batchScanBusinessCards                                      *)

\* the results pushed so far are, position by position, results of scanning
\* the image at that position alone; the scan in progress is the one of the
\* next image; the loop is never left by a rejection; the returned list has
\* one result per image
BatchResultsInOrder ==
    /\ Len(batch.results) <= Len(batch.images)
    /\ \A i \in 1..Len(batch.results) :
          batch.results[i] \in ScanResults(batch.images[i])
    /\ batch.status # "rejected"
    /\ batch.status = "done" => Len(batch.results) = Len(batch.images)
    /\ (batch.status = "running" /\ pc # "idle") =>
          /\ Len(batch.results) < Len(batch.images)
          /\ image = batch.images[Len(batch.results) + 1]
          /\ pc \in {"card_await", "card_done"}

\* a step of a running batch keeps the images and the results pushed before
\* it, and adds at most the result of the scan that has just returned
BatchKeepsEarlierResults ==
    (batch.status = "running" /\ batch'.status # "idle") =>
        /\ batch'.images = batch.images
        /\ \/ batch'.results = batch.results
           \/ /\ pc = "card_done"
              /\ batch'.results = Append(batch.results, cardResult)

\* C22: batchScanBusinessCards scans the images one after another, returns
\* one result per image in the order of the images, and the failed scan of an
\* image neither ends the batch nor changes the result of another image
BatchScansInOrder == []BatchResultsInOrder /\ [][BatchKeepsEarlierResults]_vars

\* a batch of two images has returned a failure for the first and the card
\* for the second
FailedScanThenCard ==
    /\ batch.status = "done"
    /\ Len(batch.images) = 2
    /\ Len(batch.results) = 2
    /\ ~batch.results[1].success
    /\ batch.results[1].error = "OpenAI API rate limit exceeded. Please try again later."
    /\ batch.results[2].success

-----------------------------------------------------------------------------
(* Properties of the confidence of processQRCode                             *)

\* the number of fields of details that hold a non-empty string
StringFields(details) ==
    Cardinality({key \in ContactKeys :
                    details[key].k = "str" /\ details[key].s # <<>>})

\* x hundredths, in the unit of the confidence scores
Hundredths(x) == x * Ratio(1, 100)

\* the confidence of a result of type with n non-empty string fields, rounded
\* to two decimals
ConfidenceOf(type, details, n) ==
    IF type = "entry_code" THEN Hundredths(100)
    ELSE IF type = "mailto"
        THEN (IF details["email"].k = "str" /\ details["email"].s # <<>>
              THEN Hundredths(100) ELSE Hundredths(50))
    ELSE IF type = "tel"
        THEN (IF details["phoneNumber"].k = "str" /\ details["phoneNumber"].s # <<>>
              THEN Hundredths(100) ELSE Hundredths(50))
    ELSE IF type = "vcard" THEN Hundredths(Min(20 * n, 100))
    ELSE IF type = "url" THEN Hundredths(Min(10 * n, 100))
    ELSE IF n = 0 THEN Hundredths(30)
    ELSE IF n = 1 THEN Hundredths(33)
    ELSE IF n = 2 THEN Hundredths(67)
    ELSE Hundredths(100)

ListedFields(details) ==
    Cardinality({key \in ContactKeys :
                    \/ details[key].k = "str" /\ details[key].s # <<>>
                    \/ details[key].k = "arr" /\ details[key].a # <<>>})

PlainTextFloorReturned ==
    /\ QRDone
    /\ qrResult.success
    /\ qrResult.type = "plaintext"
    /\ StringFields(qrResult.details) = 0
    /\ qrResult.confidence = Hundredths(30)

-----------------------------------------------------------------------------
(* Properties of the phone number of scanBusinessCard                        *)

\* the digits of phone in their order, after a "+" when phone starts with one
DigitsAfterLeadingPlus(phone) ==
    (IF phone # <<>> /\ phone[1] = "+" THEN <<"+">> ELSE <<>>)
        \o KeepOnly(phone, Digits)

\* a scan that returns the card of reply returns its phone number cleaned
PhoneIsCleaned(reply) ==
    (/\ VisionSettles(reply)
     /\ reply.kind = "content"
     /\ reply.form \in {"object", "prose_object"}
     /\ reply.data["phoneNumber"].k = "str"
     /\ cardResult'.success) =>
        cardResult'.details["phoneNumber"] =
            Str(DigitsAfterLeadingPlus(reply.data["phoneNumber"].s))

\* C24: the phoneNumber of every card scanBusinessCard returns is the digits
\* of the phone string of the vision model in their order, after a "+" only
\* when that string started with "+"
PhoneKeepsOnlyLeadingPlus ==
    [][\A reply \in VisionReplies : PhoneIsCleaned(reply)]_vars

-----------------------------------------------------------------------------
(* Properties of createRsvp and cancelRsvp                                   *)

\* no request to createRsvp or cancelRsvp is between its first step and its
\* response
NoRsvpInFlight ==
    \A slot \in 1..MaxRsvpRequests : rsvpCalls[slot].pc \in {"idle", "responded"}

\* C25: after any interleaving of createRsvp and cancelRsvp requests that have
\* all completed, usedCount of every license key lies between 0 and its
\* maxActivations
UsedCountWithinLimits ==
    NoRsvpInFlight =>
        \A key \in DOMAIN licenseKeys :
            /\ licenseKeys[key].usedCount >= 0
            /\ licenseKeys[key].usedCount <= licenseKeys[key].maxActivations

\* C26: a user has at most one non-deleted RSVP for the event at any time
OneRsvpPerUser ==
    \A userId \in UserIds : Cardinality(RsvpsOf(rsvps, userId)) <= 1

\* C27: once the requests in flight have completed, usedCount of every license
\* key is the number of non-deleted RSVPs created with it
UsedCountIsRsvpCount ==
    NoRsvpInFlight =>
        \A key \in DOMAIN licenseKeys :
            licenseKeys[key].usedCount = Cardinality(ActiveRsvps(rsvps, key))

-----------------------------------------------------------------------------
(* Properties of the meeting reminders                                       *)

\* C28: a meeting gets at most one delivered reminder, whichever passes of
\* the scheduled job and of the on-demand check process it and however they
\* overlap
OneReminderPerMeeting ==
    \A meetingId \in MeetingIds : delivered[meetingId] <= 1

-----------------------------------------------------------------------------
(* Properties of the purpose and the user of a one-time password             *)

\* userId has a document of purpose that is neither used nor expired
HasValidOTP(userId, purpose) ==
    \E i \in 1..Len(otps) : OTPMatches(otps[i], userId, BypassOTP, purpose)

\* every verification request that was given a document was given one of its
\* own user and of the purpose of its handler; only verifyLoginOTP answers
\* with a token, and the token is signed for the user of the document
OTPServesItsUserAndPurpose ==
    \A slot \in 1..MaxRequests :
        calls[slot].handler # "none" =>
            /\ calls[slot].otpRecord.userId = calls[slot].userId
            /\ calls[slot].otpRecord.purpose = PurposeOf(calls[slot].handler)
            /\ calls[slot].token # "" =>
                  /\ calls[slot].handler = "verifyLoginOTP"
                  /\ calls[slot].token = calls[slot].otpRecord.userId

\* a request that presents the login OTP of a user to verify-user or to
\* reset-password, or as the login OTP of another user who has none, is
\* answered 400 and changes neither the users nor the documents
OTPRefusedElsewhere ==
    \A userId \in UserIds :
        HasValidOTP(userId, "login") =>
            /\ (VerifyUserOTP(userId, BypassOTP) \/
                ResetPassword(userId, BypassOTP, StrNewPassword)) =>
                  /\ response'.status = 400
                  /\ response'.message = "Invalid or expired OTP"
                  /\ UNCHANGED <<otps, users, calls>>
            /\ \A other \in UserIds \ {userId} :
                  (~HasValidOTP(other, "login") /\ VerifyLoginOTP(other, BypassOTP)) =>
                      /\ response'.status = 400
                      /\ response'.message = "Invalid or expired OTP"
                      /\ UNCHANGED <<otps, users, calls>>

-----------------------------------------------------------------------------
(* Properties of a rejected reset-password request                           *)

\* a reset-password request that is answered "Password must be at least 6
\* characters long" or "Invalid or expired OTP" changes neither the users nor
\* the documents, and takes no document with it
RejectedResetChangesNothing ==
    \A userId \in RequestUsers, otp \in RequestOTPs,
       newPassword \in RequestPasswords :
        (/\ ResetPassword(userId, otp, newPassword)
         /\ \/ Len(newPassword) < 6
            \/ OTPFindOne(otps, userId, otp, "forgot_password") = NoOTP) =>
            /\ response'.handler = "resetPassword"
            /\ response'.status = 400
            /\ response'.message \in {"Password must be at least 6 characters long",
                                      "Invalid or expired OTP",
                                      "User ID, OTP, and new password are required"}
            /\ UNCHANGED <<otps, users, calls>>

=============================================================================
